---- MODULE Spec2Model ----
(***************************************************************************)
(* EARS firmware: persistent-configuration validation and the dual-core    *)
(* handoff of its verdict.                                                 *)
(*                                                                         *)
(*   src/lib/NVSEeprom/NVSEeprom.cpp      begin, calculateCRC32, makeHash, *)
(*                                         compareHash                     *)
(*   src/src/main.cpp                     Core0_NVSValidation,             *)
(*                                         Core1_DisplayHandler,           *)
(*                                         core0_loaderLogic, updateStatus *)
(*   src/lib/EARS_nvsEepromLib/NVSEeprom_Example.cpp                       *)
(*                                         core1_nvsValidationTask,        *)
(*                                         core0_loaderLogic (polling),    *)
(*                                         example_firstTimeSetup,         *)
(*                                         example_validateLogin, loop     *)
(*                                                                         *)
(* validateNVS, updateNVSCRC, putVersion, isValidZapNumber,                *)
(* NVSValidationResult and CURRENT_VERSION are used by these files but     *)
(* defined in none of them; they are modelled from spec.md sections 3,     *)
(* 4.3, 4.4 and 4.5.                                                       *)
(*                                                                         *)
(* A uint32_t is a pair <<hi, lo>> of 16-bit halves (TLC integers are      *)
(* 32-bit signed); a String is the sequence of its byte codes.             *)
(***************************************************************************)
EXTENDS Integers, Sequences, FiniteSets, TLC

(***************************************************************************)
(* 32-bit unsigned arithmetic                                              *)
(***************************************************************************)
Half == 65536

RECURSIVE BitAnd(_, _)
BitAnd(a, b) ==
    IF a = 0 \/ b = 0 THEN 0
    ELSE (a % 2) * (b % 2) + 2 * BitAnd(a \div 2, b \div 2)

RECURSIVE BitXor(_, _)
BitXor(a, b) ==
    IF a = 0 THEN b
    ELSE IF b = 0 THEN a
    ELSE (((a % 2) + (b % 2)) % 2) + 2 * BitXor(a \div 2, b \div 2)

And32(x, y) == <<BitAnd(x[1], y[1]), BitAnd(x[2], y[2])>>
Xor32(x, y) == <<BitXor(x[1], y[1]), BitXor(x[2], y[2])>>
Not32(x) == <<(Half - 1) - x[1], (Half - 1) - x[2]>>
\* x >> 1
Shr1(x) == <<x[1] \div 2, (x[2] \div 2) + (x[1] % 2) * (Half \div 2)>>
\* -x modulo 2^32
Neg32(x) ==
    <<((Half - 1) - x[1] + (IF x[2] = 0 THEN 1 ELSE 0)) % Half,
      (Half - x[2]) % Half>>

\* x + y and x - y modulo 2^32
Add32(x, y) ==
    <<(x[1] + y[1] + ((x[2] + y[2]) \div Half)) % Half, (x[2] + y[2]) % Half>>
Sub32(x, y) ==
    <<(x[1] - y[1] - (IF x[2] < y[2] THEN 1 ELSE 0) + Half) % Half,
      (x[2] - y[2] + Half) % Half>>
\* x >= y
Geq32(x, y) == x[1] > y[1] \/ (x[1] = y[1] /\ x[2] >= y[2])
\* the uint32_t of a number below 2^31
ToU32(n) == <<n \div Half, n % Half>>

IsU32(x) == x[1] \in 0..(Half - 1) /\ x[2] \in 0..(Half - 1)

U32_ZERO == <<0, 0>>
U32_ONE == <<0, 1>>
\* 0xFFFFFFFF
U32_ONES == <<Half - 1, Half - 1>>
\* 0xEDB88320
CRC_POLY == <<60856, 33568>>

(***************************************************************************)
(* Bounds, and the strings the runs store and hash                         *)
(***************************************************************************)
\* the stored versions range over 0..MaxVersion
MaxVersion == 3

\* "AB1234" (NVSEeprom_Example.cpp 146), a malformed ZapNumber, a password
ZAP_OK == <<65, 66, 49, 50, 51, 52>>
ZAP_MALFORMED == <<65, 49>>
PASSWORD == <<112, 119>>

\* "MySecurePassword123" and "WrongPassword" (NVSEeprom_Example.cpp 154, 227, 228)
EXAMPLE_PASSWORD ==
    <<77, 121, 83, 101, 99, 117, 114, 101, 80, 97, 115, 115, 119, 111, 114, 100, 49, 50, 51>>
WRONG_PASSWORD ==
    <<87, 114, 111, 110, 103, 80, 97, 115, 115, 119, 111, 114, 100>>

\* "123456789", and "1Slwug", whose CRC-32 is that of "pw"
CHECK_STRING == <<49, 50, 51, 52, 53, 54, 55, 56, 57>>
COLLIDING_PASSWORD == <<49, 83, 108, 119, 117, 103>>

\* the strings given to calculateCRC32, makeHash and compareHash on their own:
\* every string over HashAlphabet of at most MaxLen bytes, and the named ones
MaxLen == 2
HashAlphabet == {97, 98}
HashInputs ==
    UNION { [1..n -> HashAlphabet] : n \in 0..MaxLen }
        \cup {PASSWORD, COLLIDING_PASSWORD, CHECK_STRING}

(***************************************************************************)
(* NVSEeprom::calculateCRC32                                               *)
(***************************************************************************)
\* a round that never applies the polynomial
CrcRoundBug(crc) == Shr1(crc)

\* crc = (crc >> 1) ^ (0xEDB88320 & -(crc & 1));
CrcRound(crc) ==
    Xor32(Shr1(crc), And32(CRC_POLY, Neg32(And32(crc, U32_ONE))))

\* for (j = 0; j < 8; j++) crc = ...
RECURSIVE CrcRounds(_, _)
CrcRounds(crc, j) ==
    IF j >= 8 \/ ~IsU32(crc) THEN crc
    ELSE CrcRounds(CrcRound(crc), j + 1)

\* crc ^= data[i]; then the inner loop
CrcByte(crc, byte) == CrcRounds(Xor32(crc, <<0, byte>>), 0)

\* for (i = 0; i < length; i++); the register is a uint32_t at every turn
RECURSIVE CrcLoop(_, _, _)
CrcLoop(crc, data, i) ==
    IF i > Len(data) \/ ~IsU32(crc) THEN crc
    ELSE CrcLoop(CrcByte(crc, data[i]), data, i + 1)

calculateCRC32(data) == Not32(CrcLoop(U32_ONES, data, 1))

(***************************************************************************)
(* NVSEeprom::makeHash / compareHash                                       *)
(***************************************************************************)
\* one digit of sprintf("%08X"): '0'..'9', 'A'..'F'
HexDigit(n) == IF n < 10 THEN 48 + n ELSE 55 + n

\* the digits of a half without its leading zeros ("%X")
Hex4Short(h) ==
    LET d == <<HexDigit(h \div 4096), HexDigit((h \div 256) % 16),
               HexDigit((h \div 16) % 16), HexDigit(h % 16)>>
    IN  IF h < 16 THEN SubSeq(d, 4, 4)
        ELSE IF h < 256 THEN SubSeq(d, 3, 4)
        ELSE IF h < 4096 THEN SubSeq(d, 2, 4)
        ELSE d

\* four digits of sprintf("%08X"), zeros kept
Hex4(h) ==
    <<HexDigit(h \div 4096), HexDigit((h \div 256) % 16),
      HexDigit((h \div 16) % 16), HexDigit(h % 16)>>

makeHashOf(data) ==
    LET sum == calculateCRC32(data)
    IN  Hex4(sum[1]) \o Hex4(sum[2])

\* the hashes of the strings the runs hash, computed once
KnownHashes ==
    [d \in HashInputs \cup {EXAMPLE_PASSWORD, WRONG_PASSWORD} |-> makeHashOf(d)] @@ <<>>

makeHash(data) ==
    IF data \in DOMAIN KnownHashes THEN KnownHashes[data] ELSE makeHashOf(data)

\* a string with its letters A-Z in lower case
ToLower(str) ==
    [i \in 1..Len(str) |-> IF str[i] \in 65..90 THEN str[i] + 32 ELSE str[i]]

\* a comparison that takes no account of the case (equalsIgnoreCase)
compareHashIgnoreCase(data, storedHash) ==
    ToLower(makeHash(data)) = ToLower(storedHash)

\* computedHash.equals(storedHash)
compareHash(data, storedHash) == makeHash(data) = storedHash

(***************************************************************************)
(* The EARS namespace of the key-value store: a function from the keys     *)
(* present to their values.  VERSION is a number, ZAPNUMBER and            *)
(* PASSWORD_HASH are strings, CRC is a uint32_t.                           *)
(***************************************************************************)
KEY_VERSION == "VERSION"
KEY_ZAPNUMBER == "ZAPNUMBER"
KEY_PASSWORD_HASH == "PASSWORD_HASH"
KEY_CRC == "CRC"
Keys == {KEY_VERSION, KEY_ZAPNUMBER, KEY_PASSWORD_HASH, KEY_CRC}

EmptyStore == [k \in {} |-> 0]
Has(st, k) == k \in DOMAIN st
Get(st, k, default) == IF k \in DOMAIN st THEN st[k] ELSE default
Put(st, k, v) == [x \in (DOMAIN st) \cup {k} |-> IF x = k THEN v ELSE st[x]]

\* the version this firmware expects (spec 4.4: the compiled-in constant)
CURRENT_VERSION == 2

\* ZapNumber format, spec 4.5 and 6: two letters and four digits
isValidZapNumber(z) ==
    /\ Len(z) = 6
    /\ \A i \in 1..2 : z[i] \in 65..90
    /\ \A i \in 3..6 : z[i] \in 48..57

RECURSIVE DecStr(_)
DecStr(n) == IF n < 10 THEN <<48 + n>> ELSE DecStr(n \div 10) \o <<48 + (n % 10)>>

\* spec 3 and 4.3: the canonical concatenation, in the order version,
\* zapNumber, passwordHash; CRC itself is excluded
CanonicalBytes(st) ==
    DecStr(Get(st, KEY_VERSION, 0)) \o Get(st, KEY_ZAPNUMBER, <<>>)
        \o Get(st, KEY_PASSWORD_HASH, <<>>)

\* the checksums of the records the runs store, computed once
KnownRecordBytes ==
    { DecStr(v) \o z \o h :
        v \in 0..MaxVersion, z \in {<<>>, ZAP_OK, ZAP_MALFORMED},
        h \in {<<>>, makeHash(PASSWORD), makeHash(EXAMPLE_PASSWORD)} }

KnownRecordCrcs == [b \in KnownRecordBytes |-> calculateCRC32(b)] @@ <<>>

calculateNVSCRC(st) ==
    LET b == CanonicalBytes(st)
    IN  IF b \in DOMAIN KnownRecordCrcs THEN KnownRecordCrcs[b] ELSE calculateCRC32(b)

\* spec 4.3: verify(stored, recomputed) is exact equality
verifyCRC(stored, recomputed) == stored = recomputed

updateNVSCRC(st) == Put(st, KEY_CRC, calculateNVSCRC(st))

(***************************************************************************)
(* NVSValidationResult (spec 3)                                            *)
(***************************************************************************)
NOT_CHECKED == "NOT_CHECKED"
VALID == "VALID"
UPGRADED == "UPGRADED"
MISSING_ZAPNUMBER == "MISSING_ZAPNUMBER"
MISSING_PASSWORD == "MISSING_PASSWORD"
CRC_FAILED == "CRC_FAILED"
INVALID_VERSION == "INVALID_VERSION"
INITIALIZATION_FAILED == "INITIALIZATION_FAILED"

Fields ==
    {"status", "currentVersion", "expectedVersion", "zapNumber",
     "zapNumberValid", "passwordHashValid", "crcValid", "calculatedCRC",
     "wasUpgraded"}

\* the value at construction: status NOT_CHECKED, the rest zero
DefaultResult ==
    [status |-> NOT_CHECKED, currentVersion |-> 0, expectedVersion |-> 0,
     zapNumber |-> <<>>, zapNumberValid |-> FALSE,
     passwordHashValid |-> FALSE, crcValid |-> FALSE,
     calculatedCRC |-> U32_ZERO, wasUpgraded |-> FALSE]

(***************************************************************************)
(* SchemaMigrator (spec 4.4)                                               *)
(***************************************************************************)
\* a newer stored version taken for one to migrate
MigratorStateNoIncompatible(storedVersion) ==
    IF storedVersion = 0 THEN "UNINITIALIZED"
    ELSE IF storedVersion = CURRENT_VERSION THEN "CURRENT"
    ELSE "STALE"

MigratorState(storedVersion) ==
    IF storedVersion = 0 THEN "UNINITIALIZED"
    ELSE IF storedVersion = CURRENT_VERSION THEN "CURRENT"
    ELSE IF storedVersion < CURRENT_VERSION THEN "STALE"
    ELSE "INCOMPATIBLE"

\* The store after the migrator.  A write of VERSION changes the checksum
\* input, so the record's CRC is rewritten with it (spec 3: CRC is always
\* computed over the other three keys; 4.5: verification comes "after any
\* migration rewrite").
\* the migrator writing VERSION and leaving the old CRC
MigrateStoreStaleCrc(st) ==
    LET m == MigratorState(Get(st, KEY_VERSION, 0))
    IN  IF m \in {"UNINITIALIZED", "STALE"}
        THEN Put(st, KEY_VERSION, CURRENT_VERSION)
        ELSE st

MigrateStore(st) ==
    LET m == MigratorState(Get(st, KEY_VERSION, 0))
    IN  IF m \in {"UNINITIALIZED", "STALE"}
        THEN updateNVSCRC(Put(st, KEY_VERSION, CURRENT_VERSION))
        ELSE st

(***************************************************************************)
(* ValidationOrchestrator: validateNVS (spec 4.5).  Gives the result and   *)
(* the store it leaves.                                                    *)
(***************************************************************************)
\* the password check put before the ZapNumber check
OrchestratorStatusPasswordFirst(crcOk, zapOk, pwOk, upgraded) ==
    IF ~crcOk THEN CRC_FAILED
    ELSE IF ~pwOk THEN MISSING_PASSWORD
    ELSE IF ~zapOk THEN MISSING_ZAPNUMBER
    ELSE IF upgraded THEN UPGRADED
    ELSE VALID

\* the precedence of spec 4.5, steps 3 to 6
OrchestratorStatus(crcOk, zapOk, pwOk, upgraded) ==
    IF ~crcOk THEN CRC_FAILED
    ELSE IF ~zapOk THEN MISSING_ZAPNUMBER
    ELSE IF ~pwOk THEN MISSING_PASSWORD
    ELSE IF upgraded THEN UPGRADED
    ELSE VALID

validateNVS(st) ==
    LET storedVersion == Get(st, KEY_VERSION, 0)
        m == MigratorState(storedVersion)
    IN  IF m = "INCOMPATIBLE"
        THEN [store |-> st,
              result |-> [DefaultResult EXCEPT
                            !.status = INVALID_VERSION,
                            !.currentVersion = storedVersion,
                            !.expectedVersion = CURRENT_VERSION]]
        ELSE
          LET st2 == MigrateStore(st)
              zap == Get(st2, KEY_ZAPNUMBER, <<>>)
              zapOk == isValidZapNumber(zap)
              pwOk == Get(st2, KEY_PASSWORD_HASH, <<>>) # <<>>
              crc == calculateNVSCRC(st2)
              crcOk == verifyCRC(Get(st2, KEY_CRC, U32_ZERO), crc)
              upgraded == (m = "STALE")
          IN  [store |-> st2,
               result |-> [status |-> OrchestratorStatus(crcOk, zapOk, pwOk, upgraded),
                           currentVersion |-> storedVersion,
                           expectedVersion |-> CURRENT_VERSION,
                           zapNumber |-> zap,
                           zapNumberValid |-> zapOk,
                           passwordHashValid |-> pwOk,
                           crcValid |-> crcOk,
                           calculatedCRC |-> crc,
                           wasUpgraded |-> upgraded]]

(***************************************************************************)
(* NVSEeprom::begin.  flash is the condition nvs_flash_init finds the      *)
(* partition in; after nvs_flash_erase the partition holds no key and the  *)
(* second nvs_flash_init finds it in condition after.                     *)
(***************************************************************************)
ESP_OK == "ESP_OK"
ESP_ERR_NVS_NO_FREE_PAGES == "ESP_ERR_NVS_NO_FREE_PAGES"
ESP_ERR_NVS_NEW_VERSION_FOUND == "ESP_ERR_NVS_NEW_VERSION_FOUND"
ESP_FAIL == "ESP_FAIL"
EspErr == {ESP_OK, ESP_ERR_NVS_NO_FREE_PAGES, ESP_ERR_NVS_NEW_VERSION_FOUND, ESP_FAIL}

NeedsErase(err) ==
    err = ESP_ERR_NVS_NO_FREE_PAGES \/ err = ESP_ERR_NVS_NEW_VERSION_FOUND

\* a begin() that erases after any failure of the first nvs_flash_init
NVSEeprom_beginErasesOnAnyError(fl, after, st) ==
    IF fl # ESP_OK
    THEN [ok |-> (after = ESP_OK), flash |-> after, store |-> EmptyStore,
          trace |-> <<"nvs_flash_init", "nvs_flash_erase", "nvs_flash_init">>]
    ELSE [ok |-> TRUE, flash |-> fl, store |-> st,
          trace |-> <<"nvs_flash_init">>]

NVSEeprom_begin(fl, after, st) ==
    IF NeedsErase(fl)
    THEN [ok |-> (after = ESP_OK), flash |-> after, store |-> EmptyStore,
          trace |-> <<"nvs_flash_init", "nvs_flash_erase", "nvs_flash_init">>]
    ELSE [ok |-> (fl = ESP_OK), flash |-> fl, store |-> st,
          trace |-> <<"nvs_flash_init">>]

(***************************************************************************)
(* ScreensaverLib (ScreensaverLib.h, ScreensaverLib.cpp): the object is a  *)
(* record of its members (the display and screen pointers left out: the    *)
(* private functions that would use them are empty, 168-206); now is what  *)
(* millis() returns during the call.                                       *)
(***************************************************************************)
SS_MODE_BLACK == 0
SS_MODE_EARS_TEXT == 1
SS_MODE_BUILTIN_IMAGE == 2
SS_MODE_USER_IMAGE == 3

\* 18-31
ScreensaverLib_new ==
    [is_active |-> FALSE,
     last_activity_ms |-> U32_ZERO,
     settings |-> [enabled |-> TRUE,
                   timeout_seconds |-> 30,
                   mode |-> SS_MODE_EARS_TEXT,
                   animation_speed |-> 5,
                   bounce_mode |-> TRUE,
                   backlight_restore |-> 255]]

\* 38-41
ScreensaverLib_begin(ss, now) == [ss EXCEPT !.last_activity_ms = now]

\* 47-49
ScreensaverLib_reset(ss, now) == [ss EXCEPT !.last_activity_ms = now]

\* 56-58
ScreensaverLib_setEnabled(ss, enabled) == [ss EXCEPT !.settings.enabled = enabled]

\* 64-66
ScreensaverLib_toggleEnabled(ss) ==
    [ss EXCEPT !.settings.enabled = ~ss.settings.enabled]

\* 73-75
ScreensaverLib_setTimeout(ss, seconds) ==
    [ss EXCEPT !.settings.timeout_seconds = seconds]

\* 82-84
ScreensaverLib_setMode(ss, mode) == [ss EXCEPT !.settings.mode = mode]

\* a setter that stores every speed
ScreensaverLib_setAnimationSpeedUnchecked(ss, speed) ==
    [ss EXCEPT !.settings.animation_speed = speed]

\* 91-95
ScreensaverLib_setAnimationSpeed(ss, speed) ==
    IF speed >= 1 /\ speed <= 10
    THEN [ss EXCEPT !.settings.animation_speed = speed]
    ELSE ss

\* 102-104
ScreensaverLib_setBounceMode(ss, bounce) ==
    [ss EXCEPT !.settings.bounce_mode = bounce]

\* 147-153
ScreensaverLib_activate(ss) ==
    IF ss.is_active THEN ss ELSE [ss EXCEPT !.is_active = TRUE]

\* 159-166
ScreensaverLib_deactivate(ss, now) ==
    IF ~ss.is_active THEN ss
    ELSE ScreensaverLib_reset([ss EXCEPT !.is_active = FALSE], now)

\* an update that compares millis() with the time of the activity plus the
\* timeout
ScreensaverLib_updateByDeadline(ss, now) ==
    IF ~ss.settings.enabled THEN ss
    ELSE IF ss.settings.timeout_seconds = 0 THEN ss
    ELSE LET timeout_ms == ToU32(ss.settings.timeout_seconds * 1000)
         IN  IF ~ss.is_active /\ Geq32(now, Add32(ss.last_activity_ms, timeout_ms))
             THEN ScreensaverLib_activate(ss)
             ELSE ss

\* 127-141
ScreensaverLib_update(ss, now) ==
    IF ~ss.settings.enabled THEN ss
    ELSE IF ss.settings.timeout_seconds = 0 THEN ss
    ELSE LET elapsed == Sub32(now, ss.last_activity_ms)
             timeout_ms == ToU32(ss.settings.timeout_seconds * 1000)
         IN  IF ~ss.is_active /\ Geq32(elapsed, timeout_ms)
             THEN ScreensaverLib_activate(ss)
             ELSE ss

(***************************************************************************)
(* State                                                                   *)
(***************************************************************************)
VARIABLES
    flash,              \* what nvs_flash_init returns for the partition
    store,              \* the EARS namespace
    store0,             \* the EARS namespace at boot (history)
    nvsTrace,           \* the storage calls made so far (history)
    g_nvsResult,        \* the shared NVSValidationResult
    written,            \* the fields of g_nvsResult assigned since construction
    tmpResult,          \* the value validateNVS returned, being copied
    nAssign,            \* assignments to g_nvsResult executed (history)
    validationComplete, \* main.cpp: volatile bool
    displayMutex,       \* "free" or the task holding it
    status_label,       \* the text of the status label
    spinner,            \* TRUE while the spinner object exists
    p_pc,               \* the validation task (producer)
    c_pc,               \* the display / loader task (consumer)
    seen,               \* the fields of g_nvsResult the consumer has read
    decision,           \* the branch the loader logic took
    logged,             \* the messages given to the logger
    screensaver,        \* the ScreensaverLib object
    clock,              \* millis(), and the time since the screensaver's last
                        \* activity and the clock steps taken (history)
    h_call,             \* the last call made to the library on its own
    h_hist              \* what putHash last stored per key, and what the first
                        \* call of makeHash on an empty namespace returned
                        \* (history)

vars ==
    <<flash, store, store0, nvsTrace, g_nvsResult, written, tmpResult, nAssign,
      validationComplete, displayMutex, status_label, spinner, p_pc, c_pc,
      seen, decision, logged, screensaver, clock, h_call, h_hist>>

(***************************************************************************)
(* Bounds and the records a boot may find                                  *)
(***************************************************************************)
BootRecord(v, z, h) ==
    LET s1 == IF v = 0 THEN EmptyStore ELSE Put(EmptyStore, KEY_VERSION, v)
        s2 == IF z = <<>> THEN s1 ELSE Put(s1, KEY_ZAPNUMBER, z)
    IN  IF h = <<>> THEN s2 ELSE Put(s2, KEY_PASSWORD_HASH, h)

\* a record without CRC, with the CRC of its contents, with one bit of it flipped
WithCrc(st, c) ==
    IF c = "absent" THEN st
    ELSE IF c = "good" THEN updateNVSCRC(st)
    ELSE Put(st, KEY_CRC, Xor32(calculateNVSCRC(st), U32_ONE))

BootStores ==
    { WithCrc(BootRecord(v, z, h), c) :
        v \in 0..MaxVersion, z \in {<<>>, ZAP_OK, ZAP_MALFORMED},
        h \in {<<>>, makeHash(PASSWORD)}, c \in {"absent", "good", "bad"} }

\* what an unusable or erased partition held does not matter
BootStoresUnusable ==
    { EmptyStore, updateNVSCRC(BootRecord(CURRENT_VERSION, ZAP_OK, makeHash(PASSWORD))) }

Tasks == {"core0", "core1"}

NoneRead == [f \in {} |-> 0]

NoCall == [op |-> "none"]
\* the clock at boot
ClockAtBoot == [millis |-> U32_ZERO, idle |-> 0, ticks |-> 0]
NoHistory == [put |-> [k \in {} |-> 0], hash |-> [k \in {} |-> 0]]

InitTasks ==
    /\ nvsTrace = <<>>
    /\ g_nvsResult = DefaultResult
    /\ written = {}
    /\ tmpResult = DefaultResult
    /\ nAssign = 0
    /\ validationComplete = FALSE
    /\ displayMutex = "free"
    /\ status_label = "Starting..."
    /\ spinner = TRUE
    /\ seen = NoneRead
    /\ decision = "NONE"
    /\ logged = {}
    /\ h_call = NoCall
    /\ h_hist = NoHistory

\* main.cpp 417-418: using_screensaver().begin(disp); setTimeout(30)
InitShared ==
    /\ InitTasks
    /\ clock = ClockAtBoot
    /\ screensaver =
          ScreensaverLib_setTimeout(
              ScreensaverLib_begin(ScreensaverLib_new, clock.millis), 30)

InitStore ==
    /\ flash \in EspErr
    /\ store \in (IF flash = ESP_OK THEN BootStores ELSE BootStoresUnusable)
    /\ store0 = store

\* main.cpp after setup(): both tasks created
Init ==
    /\ InitStore
    /\ InitShared
    /\ p_pc = "p_start"
    /\ c_pc = "c_loop"

(***************************************************************************)
(* updateStatus (main.cpp 148-155): take displayMutex, set the label       *)
(* (status_label is non-NULL once setup has run), give the mutex.          *)
(***************************************************************************)
\* an xSemaphoreTake that returns without waiting for the holder
updateStatus_takeNoWait(task) ==
    /\ displayMutex' = task

updateStatus_take(task) ==
    /\ displayMutex = "free"
    /\ displayMutex' = task

\* an updateStatus that returns without xSemaphoreGive
updateStatus_setKeepsMutex(task, message) ==
    /\ displayMutex = task
    /\ status_label' = message
    /\ displayMutex' = task

updateStatus_set(task, message) ==
    /\ displayMutex = task
    /\ status_label' = message
    /\ displayMutex' = "free"

Log(msgs) == logged' = logged \cup msgs

(***************************************************************************)
(* Core0_NVSValidation (main.cpp 175-261)                                  *)
(***************************************************************************)
ProducerFrame ==
    UNCHANGED <<c_pc, seen, decision, spinner, store0, h_call, h_hist,
                screensaver, clock>>

\* 176-179: log, updateStatus("Checking NVS...")
P_Start ==
    /\ p_pc = "p_start"
    /\ updateStatus_take("core0")
    /\ Log({"[Core 0] NVS Validation Task Started"})
    /\ p_pc' = "p_us1"
    /\ UNCHANGED <<flash, store, nvsTrace, g_nvsResult, written, tmpResult,
                   nAssign, validationComplete, status_label>>
    /\ ProducerFrame

P_Us1 ==
    /\ p_pc = "p_us1"
    /\ updateStatus_set("core0", "Checking NVS...")
    /\ p_pc' = "p_take2"
    /\ UNCHANGED <<flash, store, nvsTrace, g_nvsResult, written, tmpResult,
                   nAssign, validationComplete, logged>>
    /\ ProducerFrame

\* 184: updateStatus("Initializing NVS...")
P_Take2 ==
    /\ p_pc = "p_take2"
    /\ updateStatus_take("core0")
    /\ p_pc' = "p_us2"
    /\ UNCHANGED <<flash, store, nvsTrace, g_nvsResult, written, tmpResult,
                   nAssign, validationComplete, status_label, logged>>
    /\ ProducerFrame

P_Us2 ==
    /\ p_pc = "p_us2"
    /\ updateStatus_set("core0", "Initializing NVS...")
    /\ p_pc' = "p_begin"
    /\ UNCHANGED <<flash, store, nvsTrace, g_nvsResult, written, tmpResult,
                   nAssign, validationComplete, logged>>
    /\ ProducerFrame

\* begin()'s result ignored
P_BeginUnchecked ==
    /\ p_pc = "p_begin"
    /\ \E after \in EspErr :
         LET r == NVSEeprom_begin(flash, after, store)
         IN  /\ flash' = r.flash
             /\ store' = r.store
             /\ nvsTrace' = nvsTrace \o r.trace
    /\ p_pc' = "p_take3"
    /\ Log({"[Core 0] NVS Initialized"})
    /\ UNCHANGED <<g_nvsResult, written, tmpResult, nAssign, validationComplete,
                   displayMutex, status_label>>
    /\ ProducerFrame

\* 185, 192: if (!using_nvseeprom().begin()) ... else log "NVS Initialized"
P_Begin ==
    /\ p_pc = "p_begin"
    /\ \E after \in EspErr :
         LET r == NVSEeprom_begin(flash, after, store)
         IN  /\ flash' = r.flash
             /\ store' = r.store
             /\ nvsTrace' = nvsTrace \o r.trace
             /\ IF r.ok
                THEN /\ p_pc' = "p_take3"
                     /\ Log({"[Core 0] NVS Initialized"})
                ELSE /\ p_pc' = "p_fail_assign"
                     /\ UNCHANGED logged
    /\ UNCHANGED <<g_nvsResult, written, tmpResult, nAssign, validationComplete,
                   displayMutex, status_label>>
    /\ ProducerFrame

\* 186: g_nvsResult.status = NVSStatus::INITIALIZATION_FAILED
P_FailAssign ==
    /\ p_pc = "p_fail_assign"
    /\ g_nvsResult' = [g_nvsResult EXCEPT !.status = INITIALIZATION_FAILED]
    /\ written' = written \cup {"status"}
    /\ nAssign' = nAssign + 1
    /\ p_pc' = "p_fail_take"
    /\ UNCHANGED <<flash, store, nvsTrace, tmpResult, validationComplete,
                   displayMutex, status_label, logged>>
    /\ ProducerFrame

\* 187: updateStatus("NVS Init Failed!")
P_FailTake ==
    /\ p_pc = "p_fail_take"
    /\ updateStatus_take("core0")
    /\ p_pc' = "p_fail_us"
    /\ UNCHANGED <<flash, store, nvsTrace, g_nvsResult, written, tmpResult,
                   nAssign, validationComplete, status_label, logged>>
    /\ ProducerFrame

P_FailUs ==
    /\ p_pc = "p_fail_us"
    /\ updateStatus_set("core0", "NVS Init Failed!")
    /\ p_pc' = "p_fail_flag"
    /\ UNCHANGED <<flash, store, nvsTrace, g_nvsResult, written, tmpResult,
                   nAssign, validationComplete, logged>>
    /\ ProducerFrame

\* the failure branch without its return
P_FailFlagFallsThrough ==
    /\ p_pc = "p_fail_flag"
    /\ validationComplete' = TRUE
    /\ p_pc' = "p_take3"
    /\ UNCHANGED <<flash, store, nvsTrace, g_nvsResult, written, tmpResult,
                   nAssign, displayMutex, status_label, logged>>
    /\ ProducerFrame

\* 188-190: validationComplete = true; vTaskDelete(NULL); return
P_FailFlag ==
    /\ p_pc = "p_fail_flag"
    /\ validationComplete' = TRUE
    /\ p_pc' = "p_done"
    /\ UNCHANGED <<flash, store, nvsTrace, g_nvsResult, written, tmpResult,
                   nAssign, displayMutex, status_label, logged>>
    /\ ProducerFrame

\* 197: updateStatus("Validating data...")
P_Take3 ==
    /\ p_pc = "p_take3"
    /\ updateStatus_take("core0")
    /\ p_pc' = "p_us3"
    /\ UNCHANGED <<flash, store, nvsTrace, g_nvsResult, written, tmpResult,
                   nAssign, validationComplete, status_label, logged>>
    /\ ProducerFrame

P_Us3 ==
    /\ p_pc = "p_us3"
    /\ updateStatus_set("core0", "Validating data...")
    /\ p_pc' = "p_validate"
    /\ UNCHANGED <<flash, store, nvsTrace, g_nvsResult, written, tmpResult,
                   nAssign, validationComplete, logged>>
    /\ ProducerFrame

\* 198: the call of validateNVS()
P_ValidateCall ==
    /\ p_pc = "p_validate"
    /\ nvsTrace' = Append(nvsTrace, "validateNVS")
    /\ p_pc' = "p_validating"
    /\ UNCHANGED <<flash, store, g_nvsResult, written, tmpResult, nAssign,
                   validationComplete, displayMutex, status_label, logged>>
    /\ ProducerFrame

\* 198: validateNVS() returns its result; the assignment to g_nvsResult begins
P_ValidateReturn ==
    /\ p_pc = "p_validating"
    /\ LET r == validateNVS(store)
       IN  /\ store' = r.store
           /\ tmpResult' = r.result
    /\ nAssign' = nAssign + 1
    /\ p_pc' = "p_copy"
    /\ UNCHANGED <<flash, nvsTrace, g_nvsResult, written, validationComplete,
                   displayMutex, status_label, logged>>
    /\ ProducerFrame

\* 198: g_nvsResult = <result>: a member-wise copy of the structure, not one
\* store; the order of the members is the compiler's
P_Copy ==
    /\ p_pc = "p_copy"
    /\ \E f \in Fields \ written :
         /\ g_nvsResult' = [g_nvsResult EXCEPT ![f] = tmpResult[f]]
         /\ written' = written \cup {f}
         /\ p_pc' = IF written' = Fields THEN "p_report" ELSE "p_copy"
    /\ UNCHANGED <<flash, store, nvsTrace, tmpResult, nAssign, validationComplete,
                   displayMutex, status_label, logged>>
    /\ ProducerFrame

\* the message of the switch at 204-237
ReportMessage(status) ==
    CASE status = VALID -> "NVS: Valid"
      [] status = UPGRADED -> "NVS: Upgraded"
      [] status = MISSING_ZAPNUMBER -> "NVS: Missing ZapNumber"
      [] status = MISSING_PASSWORD -> "NVS: Missing Password"
      [] status = CRC_FAILED -> "NVS: TAMPERED!"
      [] status = INVALID_VERSION -> "NVS: Invalid Version"
      [] status = INITIALIZATION_FAILED -> "NVS: Init Failed"
      [] OTHER -> "NVS: Unknown"

\* 202-237: log the status, updateStatus(<message>)
P_Report ==
    /\ p_pc = "p_report"
    /\ updateStatus_take("core0")
    /\ Log({"=== Core 0 NVS Validation Results ===", ReportMessage(g_nvsResult.status)})
    /\ p_pc' = "p_us4"
    /\ UNCHANGED <<flash, store, nvsTrace, g_nvsResult, written, tmpResult,
                   nAssign, validationComplete, status_label>>
    /\ ProducerFrame

\* 239-252: the label is set; the fields are logged; delay(1000)
P_Us4 ==
    /\ p_pc = "p_us4"
    /\ updateStatus_set("core0", ReportMessage(g_nvsResult.status))
    /\ Log({"Version:", "ZapNumber:", "Password:", "CRC:", "Upgraded:"})
    /\ p_pc' = "p_flag"
    /\ UNCHANGED <<flash, store, nvsTrace, g_nvsResult, written, tmpResult,
                   nAssign, validationComplete>>
    /\ ProducerFrame

\* 255-260: validationComplete = true; log; vTaskDelete(NULL)
P_Flag ==
    /\ p_pc = "p_flag"
    /\ validationComplete' = TRUE
    /\ Log({"[Core 0] Validation Complete - Task Ending"})
    /\ p_pc' = "p_done"
    /\ UNCHANGED <<flash, store, nvsTrace, g_nvsResult, written, tmpResult,
                   nAssign, displayMutex, status_label>>
    /\ ProducerFrame

Core0_NVSValidation ==
    \/ P_Start \/ P_Us1 \/ P_Take2 \/ P_Us2 \/ P_Begin
    \/ P_FailAssign \/ P_FailTake \/ P_FailUs \/ P_FailFlag
    \/ P_Take3 \/ P_Us3 \/ P_ValidateCall \/ P_ValidateReturn \/ P_Copy
    \/ P_Report \/ P_Us4 \/ P_Flag

(***************************************************************************)
(* core0_loaderLogic (main.cpp 268-322): the switch on g_nvsResult.status  *)
(***************************************************************************)
LOGIN == "login screen"
ZAP_WIZARD == "ZapNumber setup wizard"
PASSWORD_WIZARD == "password setup wizard"
FACTORY_RESET == "factory reset"
VERSION_MISMATCH == "version mismatch"
HARDWARE_ERROR == "hardware error"
UNKNOWN_STATE == "unknown state"

\* two cases of the switch with each other's bodies
LoaderDecisionSwapped(status) ==
    CASE status \in {VALID, UPGRADED} -> LOGIN
      [] status = MISSING_ZAPNUMBER -> ZAP_WIZARD
      [] status = MISSING_PASSWORD -> PASSWORD_WIZARD
      [] status = CRC_FAILED -> ZAP_WIZARD
      [] status = INVALID_VERSION -> VERSION_MISMATCH
      [] status = INITIALIZATION_FAILED -> FACTORY_RESET
      [] OTHER -> UNKNOWN_STATE

\* a loader that lets a record without password through to the login screen
LoaderDecisionPasswordLogin(status) ==
    CASE status \in {VALID, UPGRADED, MISSING_PASSWORD} -> LOGIN
      [] status = MISSING_ZAPNUMBER -> ZAP_WIZARD
      [] status = CRC_FAILED -> FACTORY_RESET
      [] status = INVALID_VERSION -> VERSION_MISMATCH
      [] status = INITIALIZATION_FAILED -> HARDWARE_ERROR
      [] OTHER -> UNKNOWN_STATE

LoaderDecision(status) ==
    CASE status \in {VALID, UPGRADED} -> LOGIN
      [] status = MISSING_ZAPNUMBER -> ZAP_WIZARD
      [] status = MISSING_PASSWORD -> PASSWORD_WIZARD
      [] status = CRC_FAILED -> FACTORY_RESET
      [] status = INVALID_VERSION -> VERSION_MISMATCH
      [] status = INITIALIZATION_FAILED -> HARDWARE_ERROR
      [] OTHER -> UNKNOWN_STATE

\* the argument of updateStatus in each case
LoaderMessage(d) ==
    CASE d = LOGIN -> "Ready - Login"
      [] d = ZAP_WIZARD -> "Setup: ZapNumber"
      [] d = PASSWORD_WIZARD -> "Setup: Password"
      [] d = FACTORY_RESET -> "Factory Reset Needed"
      [] d = VERSION_MISMATCH -> "Version Mismatch"
      [] d = HARDWARE_ERROR -> "Hardware Error"
      [] OTHER -> "Unknown State"

\* the other fields of g_nvsResult the case reads (276, 289, 303-305)
LoaderReads(d) ==
    CASE d \in {LOGIN, PASSWORD_WIZARD} -> {"zapNumber"}
      [] d = VERSION_MISMATCH -> {"currentVersion", "expectedVersion"}
      [] OTHER -> {}

Read(fs) == seen' = [f \in (DOMAIN seen) \cup fs |-> IF f \in fs THEN g_nvsResult[f] ELSE seen[f]]

(***************************************************************************)
(* Core1_DisplayHandler (main.cpp 331-360)                                 *)
(***************************************************************************)
ConsumerFrame ==
    UNCHANGED <<flash, store, store0, nvsTrace, g_nvsResult, written, tmpResult,
                nAssign, validationComplete, p_pc, h_call, h_hist,
                screensaver, clock>>

\* 336-337: xSemaphoreTake; lv_timer_handler() runs
C_Take ==
    /\ c_pc = "c_loop"
    /\ updateStatus_take("core1")
    /\ c_pc' = "c_timer"
    /\ UNCHANGED <<status_label, spinner, seen, decision, logged>>
    /\ ConsumerFrame

\* 338: xSemaphoreGive
C_Timer ==
    /\ c_pc = "c_timer"
    /\ displayMutex = "core1"
    /\ displayMutex' = "free"
    /\ c_pc' = "c_check"
    /\ UNCHANGED <<status_label, spinner, seen, decision, logged>>
    /\ ConsumerFrame

\* the consumer going on without testing the flag
C_CheckNoFlag ==
    /\ c_pc = "c_check"
    /\ c_pc' = IF spinner THEN "c_del" ELSE "c_loader"
    /\ UNCHANGED <<displayMutex, status_label, spinner, seen, decision, logged>>
    /\ ConsumerFrame

\* 342-344: if (validationComplete) { if (spinner != NULL) lv_obj_del ...
C_Check ==
    /\ c_pc = "c_check"
    /\ c_pc' = IF validationComplete
               THEN (IF spinner THEN "c_del" ELSE "c_loader")
               ELSE "c_delay"
    /\ UNCHANGED <<displayMutex, status_label, spinner, seen, decision, logged>>
    /\ ConsumerFrame

\* 358: delay(5)
C_Delay ==
    /\ c_pc = "c_delay"
    /\ c_pc' = "c_loop"
    /\ UNCHANGED <<displayMutex, status_label, spinner, seen, decision, logged>>
    /\ ConsumerFrame

\* 345-346: lv_obj_del(spinner) returns; spinner = NULL
C_Del ==
    /\ c_pc = "c_del"
    /\ spinner' = FALSE
    /\ c_pc' = "c_loader"
    /\ UNCHANGED <<displayMutex, status_label, seen, decision, logged>>
    /\ ConsumerFrame

\* 269-272: core0_loaderLogic: switch (g_nvsResult.status)
C_Switch ==
    /\ c_pc = "c_loader"
    /\ Read({"status"})
    /\ decision' = LoaderDecision(g_nvsResult.status)
    /\ Log({"=== Loader Decision ==="})
    /\ c_pc' = "c_fields"
    /\ UNCHANGED <<displayMutex, status_label, spinner>>
    /\ ConsumerFrame

\* the log lines of the case, with the fields they print
C_Fields ==
    /\ c_pc = "c_fields"
    /\ Read(LoaderReads(decision))
    /\ Log({decision})
    /\ c_pc' = "c_take"
    /\ UNCHANGED <<displayMutex, status_label, spinner, decision>>
    /\ ConsumerFrame

\* updateStatus(<message of the case>)
C_TakeUs ==
    /\ c_pc = "c_take"
    /\ updateStatus_take("core1")
    /\ c_pc' = "c_us"
    /\ UNCHANGED <<status_label, spinner, seen, decision, logged>>
    /\ ConsumerFrame

\* 321, 353-355: the label is set; log; vTaskDelete(NULL)
C_Us ==
    /\ c_pc = "c_us"
    /\ updateStatus_set("core1", LoaderMessage(decision))
    /\ Log({"[Core 1] Display task ending - validation complete"})
    /\ c_pc' = "c_done"
    /\ UNCHANGED <<spinner, seen, decision>>
    /\ ConsumerFrame

Core1_DisplayHandler ==
    \/ C_Take \/ C_Timer \/ C_Check \/ C_Delay \/ C_Del
    \/ C_Switch \/ C_Fields \/ C_TakeUs \/ C_Us

(***************************************************************************)
(* main.cpp: the two tasks, interleaved                                    *)
(***************************************************************************)
Next == Core0_NVSValidation \/ Core1_DisplayHandler

Spec == Init /\ [][Next]_vars

(***************************************************************************)
(* Vocabulary of the properties                                            *)
(***************************************************************************)
Range(q) == {q[i] : i \in 1..Len(q)}

\* begin() has returned, and what it returned
BeginReturned == nvsTrace # <<>>
BeginFailed == BeginReturned /\ flash # ESP_OK
Erased == "nvs_flash_erase" \in Range(nvsTrace)

\* the record validateNVS finds: the boot record, or nothing after an erase
RecordAtValidation == IF Erased THEN EmptyStore ELSE store0

\* validateNVS has been called and has returned
ValidationReturned ==
    /\ "validateNVS" \in Range(nvsTrace)
    /\ p_pc # "p_validating"

\* the consumer has left its wait loop
ConsumerPastWait == c_pc \in {"c_del", "c_loader", "c_fields", "c_take", "c_us", "c_done"}

\* every write the producer makes to g_nvsResult has been made
ProducerWritesDone ==
    \/ /\ p_pc \in {"p_fail_take", "p_fail_us", "p_fail_flag", "p_done"}
       /\ BeginFailed
       /\ written = {"status"}
       /\ g_nvsResult = [DefaultResult EXCEPT !.status = INITIALIZATION_FAILED]
    \/ /\ p_pc \in {"p_report", "p_us4", "p_flag", "p_done"}
       /\ ~BeginFailed
       /\ written = Fields
       /\ g_nvsResult = tmpResult

\* a result whose other fields agree with its status
Coherent(r) ==
    /\ r.status # NOT_CHECKED
    /\ r.status \in {VALID, UPGRADED} =>
          /\ r.zapNumberValid /\ r.passwordHashValid /\ r.crcValid
          /\ isValidZapNumber(r.zapNumber)
          /\ r.expectedVersion = CURRENT_VERSION
          /\ r.wasUpgraded = (r.status = UPGRADED)
    /\ r.status = MISSING_PASSWORD =>
          r.zapNumberValid /\ isValidZapNumber(r.zapNumber) /\ r.crcValid
    /\ r.status = MISSING_ZAPNUMBER => ~r.zapNumberValid /\ r.crcValid
    /\ r.status = CRC_FAILED => ~r.crcValid
    /\ r.status = INVALID_VERSION =>
          /\ r.expectedVersion = CURRENT_VERSION
          /\ r.currentVersion > r.expectedVersion

(***************************************************************************)
(* C1 - Handoff atomicity in main.cpp: once the consumer has left its wait *)
(* (it reads g_nvsResult in core0_loaderLogic only then), the producer has *)
(* made all of its writes to g_nvsResult, the result is coherent with its  *)
(* status, and every field the consumer has read is the field's final      *)
(* value.                                                                  *)
(***************************************************************************)
C1_HandoffAtomicity ==
    ConsumerPastWait =>
        /\ ProducerWritesDone
        /\ Coherent(g_nvsResult)
        /\ \A f \in DOMAIN seen : seen[f] = g_nvsResult[f]

C1_Witness ==
    /\ c_pc = "c_done"
    /\ seen = [status |-> VALID, zapNumber |-> ZAP_OK]
    /\ g_nvsResult.crcValid

(***************************************************************************)
(* C4 - Store initialization failure is terminal: when begin() returns     *)
(* false the producer never calls validateNVS and touches the store no     *)
(* more, the status it publishes is INITIALIZATION_FAILED, and the         *)
(* consumer takes the hardware-error branch.                               *)
(***************************************************************************)
C4_InitFailureTerminal ==
    BeginFailed =>
        /\ "validateNVS" \notin Range(nvsTrace)
        /\ store = RecordAtValidation
        /\ p_pc = "p_done" => validationComplete
        /\ validationComplete => g_nvsResult.status = INITIALIZATION_FAILED
        /\ decision \in {"NONE", HARDWARE_ERROR}
        /\ c_pc = "c_done" => decision = HARDWARE_ERROR /\ status_label = "Hardware Error"

C4_Witness ==
    /\ BeginFailed
    /\ Erased
    /\ c_pc = "c_done"
    /\ decision = HARDWARE_ERROR

(***************************************************************************)
(* C6 - Publish-once: validationComplete goes from false to true and never *)
(* back; exactly one assignment to g_nvsResult has been executed when the  *)
(* flag is set; the producer does not end without setting it; and nothing  *)
(* writes g_nvsResult once the flag is set.                                *)
(***************************************************************************)
C6_PublishOnce ==
    /\ [](/\ nAssign <= 1
          /\ validationComplete => (nAssign = 1 /\ p_pc = "p_done")
          /\ p_pc = "p_done" => validationComplete)
    /\ [][validationComplete =>
            /\ validationComplete'
            /\ g_nvsResult' = g_nvsResult
            /\ written' = written
            /\ nAssign' = nAssign]_vars

C6_Witness ==
    /\ validationComplete
    /\ nAssign = 1
    /\ written = Fields
    /\ c_pc = "c_done"

(***************************************************************************)
(* C10 - For every status the producer publishes, zapNumberValid,          *)
(* passwordHashValid and crcValid have been assigned by the validation     *)
(* pass.  (Stated as claimed; the begin() failure path of main.cpp assigns *)
(* status alone.)                                                          *)
(***************************************************************************)
C10_DiagnosticsPopulated ==
    validationComplete =>
        {"zapNumberValid", "passwordHashValid", "crcValid"} \subseteq written

C5_FailClosedNewerSchema ==
    ( /\ ValidationReturned
      /\ Get(RecordAtValidation, KEY_VERSION, 0) > CURRENT_VERSION )
    => /\ tmpResult.status = INVALID_VERSION
       /\ store = RecordAtValidation
       /\ validationComplete => g_nvsResult.status = INVALID_VERSION

C5_Witness ==
    /\ p_pc = "p_done"
    /\ g_nvsResult.status = INVALID_VERSION
    /\ Get(store, KEY_VERSION, 0) = MaxVersion
    /\ Get(store, KEY_ZAPNUMBER, <<>>) = ZAP_MALFORMED
    /\ Has(store, KEY_CRC)

(***************************************************************************)
(* C8 - Migration: for a record with 0 < storedVersion < expectedVersion,  *)
(* a well-formed ZAPNUMBER and a PASSWORD_HASH, the validation pass gives  *)
(* wasUpgraded and status UPGRADED, and afterwards the stored VERSION is   *)
(* the expected one and the stored CRC is the checksum of the record.      *)
(***************************************************************************)
C8_Migration ==
    ( /\ ValidationReturned
      /\ Get(RecordAtValidation, KEY_VERSION, 0) \in 1..(CURRENT_VERSION - 1)
      /\ isValidZapNumber(Get(RecordAtValidation, KEY_ZAPNUMBER, <<>>))
      /\ Has(RecordAtValidation, KEY_PASSWORD_HASH) )
    => /\ tmpResult.wasUpgraded
       /\ tmpResult.status = UPGRADED
       /\ Get(store, KEY_VERSION, 0) = CURRENT_VERSION
       /\ Has(store, KEY_CRC)
       /\ verifyCRC(store[KEY_CRC], calculateNVSCRC(store))
       /\ validationComplete =>
             g_nvsResult.status = UPGRADED /\ g_nvsResult.wasUpgraded

C8_Witness ==
    /\ p_pc = "p_done"
    /\ g_nvsResult.status = UPGRADED
    /\ Get(store0, KEY_VERSION, 0) = 1
    /\ Has(store0, KEY_CRC)
    /\ store0[KEY_CRC] # store[KEY_CRC]
    /\ decision = LOGIN

(***************************************************************************)
(* C9 - Fresh record: when the store holds none of the four keys the       *)
(* validation pass writes VERSION = expectedVersion and gives status       *)
(* MISSING_ZAPNUMBER, and the consumer takes the ZapNumber-wizard branch.  *)
(***************************************************************************)
C9_FreshRecord ==
    ( /\ ValidationReturned
      /\ RecordAtValidation = EmptyStore )
    => /\ Get(store, KEY_VERSION, 0) = CURRENT_VERSION
       /\ tmpResult.status = MISSING_ZAPNUMBER
       /\ validationComplete => g_nvsResult.status = MISSING_ZAPNUMBER
       /\ decision \in {"NONE", ZAP_WIZARD}
       /\ c_pc = "c_done" => decision = ZAP_WIZARD

C9_Witness ==
    /\ c_pc = "c_done"
    /\ store0 = EmptyStore
    /\ ~Erased
    /\ decision = ZAP_WIZARD
    /\ Get(store, KEY_VERSION, 0) = CURRENT_VERSION

(***************************************************************************)
(* main.cpp when a storage call may never return: the tasks are scheduled  *)
(* fairly, but nothing makes nvs_flash_init or validateNVS come back.      *)
(***************************************************************************)
ProducerOwnSteps ==
    \/ P_Start \/ P_Us1 \/ P_Take2 \/ P_Us2
    \/ P_FailAssign \/ P_FailTake \/ P_FailUs \/ P_FailFlag
    \/ P_Take3 \/ P_Us3 \/ P_ValidateCall \/ P_Copy
    \/ P_Report \/ P_Us4 \/ P_Flag

StalledStoreSpec ==
    /\ Init
    /\ [][Next]_vars
    /\ WF_vars(Core1_DisplayHandler)
    /\ WF_vars(ProducerOwnSteps)

(***************************************************************************)
(* C2 - The consumer's wait is bounded: if the producer never publishes,   *)
(* the wait still ends, with a Timeout outcome that takes the branch of    *)
(* INITIALIZATION_FAILED.  (Stated as claimed; the loop of                 *)
(* Core1_DisplayHandler has no bound and no Timeout outcome.)              *)
(***************************************************************************)
C2_BoundedWait ==
    ([] ~validationComplete) => <>(decision = HARDWARE_ERROR)

(***************************************************************************)
(* NVSEeprom_Example.cpp: core1_nvsValidationTask (22-77)                  *)
(***************************************************************************)
ExampleUnused ==
    UNCHANGED <<validationComplete, displayMutex, status_label, spinner, store0,
                h_call, h_hist, screensaver, clock>>

ExampleProducerFrame == UNCHANGED <<c_pc, seen, decision>> /\ ExampleUnused

\* 24: if (!nvs.begin())
E_Begin ==
    /\ p_pc = "e_begin"
    /\ \E after \in EspErr :
         LET r == NVSEeprom_begin(flash, after, store)
         IN  /\ flash' = r.flash
             /\ store' = r.store
             /\ nvsTrace' = nvsTrace \o r.trace
             /\ p_pc' = IF r.ok THEN "e_validate" ELSE "e_fail_assign"
    /\ UNCHANGED <<g_nvsResult, written, tmpResult, nAssign, logged>>
    /\ ExampleProducerFrame

\* 25-27: g_nvsResult.status = INITIALIZATION_FAILED; vTaskDelete(NULL)
E_FailAssign ==
    /\ p_pc = "e_fail_assign"
    /\ g_nvsResult' = [g_nvsResult EXCEPT !.status = INITIALIZATION_FAILED]
    /\ written' = written \cup {"status"}
    /\ nAssign' = nAssign + 1
    /\ p_pc' = "e_done"
    /\ UNCHANGED <<flash, store, nvsTrace, tmpResult, logged>>
    /\ ExampleProducerFrame

\* 31: the call of validateNVS()
E_ValidateCall ==
    /\ p_pc = "e_validate"
    /\ nvsTrace' = Append(nvsTrace, "validateNVS")
    /\ p_pc' = "e_validating"
    /\ UNCHANGED <<flash, store, g_nvsResult, written, tmpResult, nAssign, logged>>
    /\ ExampleProducerFrame

\* 31: validateNVS() returns; the assignment to g_nvsResult begins
E_ValidateReturn ==
    /\ p_pc = "e_validating"
    /\ LET r == validateNVS(store)
       IN  /\ store' = r.store
           /\ tmpResult' = r.result
    /\ nAssign' = nAssign + 1
    /\ p_pc' = "e_copy"
    /\ UNCHANGED <<flash, nvsTrace, g_nvsResult, written, logged>>
    /\ ExampleProducerFrame

\* 31: g_nvsResult = <result>: member-wise, in the compiler's order
E_Copy ==
    /\ p_pc = "e_copy"
    /\ \E f \in Fields \ written :
         /\ g_nvsResult' = [g_nvsResult EXCEPT ![f] = tmpResult[f]]
         /\ written' = written \cup {f}
         /\ p_pc' = IF written' = Fields THEN "e_report" ELSE "e_copy"
    /\ UNCHANGED <<flash, store, nvsTrace, tmpResult, nAssign, logged>>
    /\ ExampleProducerFrame

\* 34-76: the results are printed; vTaskDelete(NULL)
E_Report ==
    /\ p_pc = "e_report"
    /\ Log({"=== Core1 NVS Validation Results ===", g_nvsResult.status})
    /\ p_pc' = "e_done"
    /\ UNCHANGED <<flash, store, nvsTrace, g_nvsResult, written, tmpResult, nAssign>>
    /\ ExampleProducerFrame

core1_nvsValidationTask ==
    \/ E_Begin \/ E_FailAssign \/ E_ValidateCall \/ E_ValidateReturn
    \/ E_Copy \/ E_Report

(***************************************************************************)
(* NVSEeprom_Example.cpp: loop (216-234) with core0_loaderLogic (83-135),  *)
(* example_firstTimeSetup (139-168) and example_validateLogin (173-186)    *)
(***************************************************************************)
ExampleConsumerFrame ==
    UNCHANGED <<flash, store, nvsTrace, g_nvsResult, written, tmpResult, nAssign, p_pc>>
    /\ ExampleUnused

\* 219-223: if (!hasRun) { delay(500); core0_loaderLogic();
L_Start ==
    /\ c_pc = "l_start"
    /\ Log({"=== Core0 Loader Decision ==="})
    /\ c_pc' = "l_poll"
    /\ UNCHANGED <<seen, decision>>
    /\ ExampleConsumerFrame

\* a loader that does not wait for the status to leave NOT_CHECKED
L_PollNoWait ==
    /\ c_pc = "l_poll"
    /\ c_pc' = "l_switch"
    /\ UNCHANGED <<seen, decision, logged>>
    /\ ExampleConsumerFrame

\* 87: while (g_nvsResult.status == NVSStatus::NOT_CHECKED)
L_Poll ==
    /\ c_pc = "l_poll"
    /\ c_pc' = IF g_nvsResult.status = NOT_CHECKED THEN "l_delay" ELSE "l_switch"
    /\ UNCHANGED <<seen, decision, logged>>
    /\ ExampleConsumerFrame

\* 88: delay(10)
L_Delay ==
    /\ c_pc = "l_delay"
    /\ c_pc' = "l_poll"
    /\ UNCHANGED <<seen, decision, logged>>
    /\ ExampleConsumerFrame

\* 92: switch (g_nvsResult.status)
L_Switch ==
    /\ c_pc = "l_switch"
    /\ Read({"status"})
    /\ decision' = LoaderDecision(g_nvsResult.status)
    /\ c_pc' = "l_fields"
    /\ UNCHANGED logged
    /\ ExampleConsumerFrame

\* 95-132: the prints of the case, with the fields they read
L_Fields ==
    /\ c_pc = "l_fields"
    /\ Read(LoaderReads(decision))
    /\ Log({decision})
    /\ c_pc' = "l_decided"
    /\ UNCHANGED decision
    /\ ExampleConsumerFrame

ExampleLoader == L_Start \/ L_Poll \/ L_Delay \/ L_Switch \/ L_Fields

ExampleSetupFrame ==
    UNCHANGED <<g_nvsResult, written, tmpResult, nAssign, p_pc, seen, decision>>
    /\ ExampleUnused

\* a write of the Preferences library: it stores the value or, when the
\* namespace cannot be opened or the write fails, stores nothing
StoreWrite(k, v) ==
    \E done \in BOOLEAN :
        /\ done => flash = ESP_OK
        /\ store' = IF done THEN Put(store, k, v) ELSE store

\* 143: nvs.begin(), its result not looked at
S_Begin ==
    /\ c_pc = "l_decided"
    /\ \E after \in EspErr :
         LET r == NVSEeprom_begin(flash, after, store)
         IN  /\ flash' = r.flash
             /\ store' = r.store
             /\ nvsTrace' = nvsTrace \o r.trace
    /\ Log({"=== Example: First Time Setup ==="})
    /\ c_pc' = "s_zap"
    /\ ExampleSetupFrame

\* 146-151: if (isValidZapNumber("AB1234")) putString(KEY_ZAPNUMBER, ...)
S_Zap ==
    /\ c_pc = "s_zap"
    /\ IF isValidZapNumber(ZAP_OK)
       THEN /\ StoreWrite(KEY_ZAPNUMBER, ZAP_OK)
            /\ nvsTrace' = Append(nvsTrace, "putString")
            /\ Log({"ZapNumber saved"})
       ELSE UNCHANGED <<store, nvsTrace, logged>>
    /\ c_pc' = "s_hash"
    /\ UNCHANGED flash
    /\ ExampleSetupFrame

\* 154-157: putHash(KEY_PASSWORD_HASH, makeHash(password))
S_Hash ==
    /\ c_pc = "s_hash"
    /\ StoreWrite(KEY_PASSWORD_HASH, makeHash(EXAMPLE_PASSWORD))
    /\ nvsTrace' = Append(nvsTrace, "putHash")
    /\ Log({"Password hash saved"})
    /\ c_pc' = "s_version"
    /\ UNCHANGED flash
    /\ ExampleSetupFrame

\* 160-161: putVersion(KEY_VERSION, CURRENT_VERSION)
S_Version ==
    /\ c_pc = "s_version"
    /\ StoreWrite(KEY_VERSION, CURRENT_VERSION)
    /\ nvsTrace' = Append(nvsTrace, "putVersion")
    /\ Log({"Version saved"})
    /\ c_pc' = "s_crc"
    /\ UNCHANGED flash
    /\ ExampleSetupFrame

\* 164-167: updateNVSCRC()
S_Crc ==
    /\ c_pc = "s_crc"
    /\ \E done \in BOOLEAN :
         /\ done => flash = ESP_OK
         /\ store' = IF done THEN updateNVSCRC(store) ELSE store
    /\ nvsTrace' = Append(nvsTrace, "updateNVSCRC")
    /\ Log({"CRC updated", "Setup complete!"})
    /\ c_pc' = "v_login1"
    /\ UNCHANGED flash
    /\ ExampleSetupFrame

example_firstTimeSetup == S_Begin \/ S_Zap \/ S_Hash \/ S_Version \/ S_Crc

\* 177: getHash(KEY_PASSWORD_HASH): the stored hash, or "" when the
\* namespace cannot be opened or holds no such key
StoredHashes ==
    {<<>>} \cup (IF flash = ESP_OK /\ Has(store, KEY_PASSWORD_HASH)
                 THEN {Get(store, KEY_PASSWORD_HASH, <<>>)} ELSE {})

\* 173-186: example_validateLogin(enteredPassword)
example_validateLogin(at, enteredPassword, then) ==
    /\ c_pc = at
    /\ \E storedHash \in StoredHashes :
         Log({ IF compareHash(enteredPassword, storedHash)
               THEN "Login SUCCESS!"
               ELSE "Login FAILED - incorrect password" })
    /\ nvsTrace' = Append(nvsTrace, "getHash")
    /\ c_pc' = then
    /\ UNCHANGED <<flash, store>>
    /\ ExampleSetupFrame

\* 227: example_validateLogin("MySecurePassword123")
V_Login1 == example_validateLogin("v_login1", EXAMPLE_PASSWORD, "v_login2")

\* 228-230: example_validateLogin("WrongPassword"); hasRun = true
V_Login2 == example_validateLogin("v_login2", WRONG_PASSWORD, "l_idle")

\* 233: delay(1000), on every later pass of loop()
L_Idle ==
    /\ c_pc = "l_idle"
    /\ UNCHANGED vars

ExampleLoop ==
    \/ ExampleLoader \/ example_firstTimeSetup
    \/ V_Login1 \/ V_Login2 \/ L_Idle

\* the records the example is run on: none, a complete one of the current,
\* of an older and of a newer version, one with a bad CRC, one without password
ExampleBootStores ==
    { EmptyStore,
      WithCrc(BootRecord(CURRENT_VERSION, ZAP_OK, makeHash(PASSWORD)), "good"),
      WithCrc(BootRecord(CURRENT_VERSION - 1, ZAP_OK, makeHash(PASSWORD)), "good"),
      WithCrc(BootRecord(CURRENT_VERSION + 1, ZAP_OK, makeHash(PASSWORD)), "good"),
      WithCrc(BootRecord(CURRENT_VERSION, ZAP_OK, makeHash(PASSWORD)), "bad"),
      WithCrc(BootRecord(CURRENT_VERSION, ZAP_OK, <<>>), "good") }

ExampleInit ==
    /\ flash \in EspErr
    /\ store \in (IF flash = ESP_OK THEN ExampleBootStores ELSE BootStoresUnusable)
    /\ store0 = store
    /\ InitShared
    /\ p_pc = "e_begin"
    /\ c_pc = "l_start"

ExampleNext == core1_nvsValidationTask \/ ExampleLoop

ExampleSpec == ExampleInit /\ [][ExampleNext]_vars

(***************************************************************************)
(* C7 - In the example's handoff the populated result becomes visible to   *)
(* the consumer at once: every field of g_nvsResult the consumer has read  *)
(* after leaving its wait loop had been written by the producer.  (Stated  *)
(* as claimed; the assignment is member-wise and the loop watches status   *)
(* alone.)                                                                 *)
(***************************************************************************)
C7_ExampleAtomicVisibility ==
    \A f \in DOMAIN seen : f \in written

(***************************************************************************)
(* NVSEeprom::getHash / putHash (NVSEeprom.cpp 50-60, 70-80) over the      *)
(* Preferences library.  opened: Preferences::begin(NAMESPACE, ...)        *)
(* returned true; wrote: putString stored the value.  putString returns    *)
(* the number of bytes of the string it stored, 0 when it stored nothing.  *)
(***************************************************************************)
\* a getHash that gives "" when the namespace does not open
getHashEmptyOnFailure(st, key, defaultValue, opened) ==
    IF ~opened THEN <<>> ELSE Get(st, key, defaultValue)

\* 52-59
getHash(st, key, defaultValue, opened) ==
    IF ~opened THEN defaultValue
    ELSE Get(st, key, defaultValue)

putString(st, key, value, wrote) ==
    [store |-> IF wrote THEN Put(st, key, value) ELSE st,
     result |-> IF wrote THEN Len(value) ELSE 0]

\* 52-58: the calls getHash makes on Preferences, in their order
getHashCalls(opened) ==
    IF ~opened THEN <<"begin(NAMESPACE, true)">>
    ELSE <<"begin(NAMESPACE, true)", "getString", "end">>

\* a putHash that returns the result of putString at once
putHashWithoutEnd(st, key, value, opened, wrote) ==
    IF ~opened
    THEN [store |-> st, res |-> FALSE, calls |-> <<"begin(NAMESPACE, false)">>]
    ELSE LET w == putString(st, key, value, wrote)
         IN  [store |-> w.store, res |-> w.result > 0,
              calls |-> <<"begin(NAMESPACE, false)", "putString">>]

\* 72-79
putHash(st, key, value, opened, wrote) ==
    IF ~opened
    THEN [store |-> st, res |-> FALSE, calls |-> <<"begin(NAMESPACE, false)">>]
    ELSE LET w == putString(st, key, value, wrote)
         IN  [store |-> w.store, res |-> w.result > 0,
              calls |-> <<"begin(NAMESPACE, false)", "putString", "end">>]

(***************************************************************************)
(* The library called on its own: any sequence of calls of begin,          *)
(* calculateCRC32 (and one turn of its inner loop), makeHash, compareHash, *)
(* putHash and getHash, on inputs from small sets.                         *)
(***************************************************************************)
LibKeys == {KEY_PASSWORD_HASH, "OTHER"}
LibValues == {<<>>, <<97>>, makeHash(PASSWORD)}
LibDefaults == {<<>>, <<100>>}

\* the strings whose hash compareHash is given, beside that of its own input
HashedInputs == {<<97>>, PASSWORD}

\* sizeof(uint32_t): the bytes of the register
RegisterBytes == 4

\* register values: all pairs of these halves
RegisterHalves == {0, 1, 32768, 65535}
Registers == RegisterHalves \X RegisterHalves

LibFrame ==
    UNCHANGED <<store0, nvsTrace, g_nvsResult, written, tmpResult, nAssign,
                validationComplete, displayMutex, status_label, spinner,
                p_pc, c_pc, seen, decision, logged, screensaver, clock>>

\* NVSEeprom::begin(); an erase empties the namespace
Lib_begin ==
    /\ \E after \in EspErr :
         LET r == NVSEeprom_begin(flash, after, store)
         IN  /\ flash' = r.flash
             /\ store' = r.store
             /\ h_call' = [op |-> "begin", first |-> flash, last |-> r.flash,
                           trace |-> r.trace, res |-> r.ok]
             /\ h_hist' = IF NeedsErase(flash)
                          THEN [h_hist EXCEPT !.put = NoHistory.put]
                          ELSE h_hist
    /\ LibFrame

\* one turn of the inner loop of calculateCRC32 on a register value
Lib_CrcRound ==
    /\ \E reg \in Registers :
         h_call' = [op |-> "CrcRound", arg |-> reg, res |-> CrcRound(reg)]
    /\ UNCHANGED <<flash, store, h_hist>>
    /\ LibFrame

\* calculateCRC32 of each input, computed once
KnownCrcs == [d \in HashInputs |-> calculateCRC32(d)] @@ <<>>

Lib_calculateCRC32 ==
    /\ \E data \in HashInputs :
         h_call' = [op |-> "calculateCRC32", arg |-> data, res |-> KnownCrcs[data]]
    /\ UNCHANGED <<flash, store, h_hist>>
    /\ LibFrame

\* the first call of makeHash made while the namespace is empty is remembered
Remember(data, res) ==
    IF h_hist.hash = NoHistory.hash /\ store = EmptyStore
    THEN [h_hist EXCEPT !.hash = [arg |-> data, res |-> res]]
    ELSE h_hist

\* a makeHash that reads the object's state
Lib_makeHashOfState ==
    /\ \E data \in HashInputs :
         LET res == makeHash(IF Has(store, "OTHER") THEN data \o <<97>> ELSE data)
         IN  /\ h_call' = [op |-> "makeHash", arg |-> data, res |-> res]
             /\ h_hist' = Remember(data, res)
    /\ UNCHANGED <<flash, store>>
    /\ LibFrame

Lib_makeHash ==
    /\ \E data \in HashInputs :
         LET res == makeHash(data)
         IN  /\ h_call' = [op |-> "makeHash", arg |-> data, res |-> res]
             /\ h_hist' = Remember(data, res)
    /\ UNCHANGED <<flash, store>>
    /\ LibFrame

\* compareHash(data, storedHash), storedHash made by makeHash(hashed)
Lib_compareHash ==
    /\ \E data \in HashInputs : \E hashed \in HashedInputs \cup {data} :
         h_call' = [op |-> "compareHash", arg |-> data, hashed |-> hashed,
                    res |-> compareHash(data, makeHash(hashed))]
    /\ UNCHANGED <<flash, store, h_hist>>
    /\ LibFrame

\* the stored hashes compareHash is given: as makeHash writes them, the same
\* digits with the letters in lower case, and a record cut short
RecordedHashes ==
    UNION { {makeHash(d), ToLower(makeHash(d)), SubSeq(makeHash(d), 1, 7)} :
            d \in HashedInputs }

\* compareHash(data, storedHash), storedHash read from a record
Lib_compareStored ==
    /\ \E data \in HashedInputs \cup {<<>>, COLLIDING_PASSWORD},
            storedHash \in RecordedHashes :
         h_call' = [op |-> "compareStored", arg |-> data,
                    storedHash |-> storedHash,
                    res |-> compareHash(data, storedHash)]
    /\ UNCHANGED <<flash, store, h_hist>>
    /\ LibFrame

Lib_putHash ==
    /\ \E key \in LibKeys, value \in LibValues, opened \in BOOLEAN, wrote \in BOOLEAN :
         /\ opened = (flash = ESP_OK)
         /\ wrote => opened
         /\ LET r == putHash(store, key, value, opened, wrote)
            IN  /\ store' = r.store
                /\ h_call' = [op |-> "putHash", key |-> key, value |-> value,
                              opened |-> opened, wrote |-> wrote, res |-> r.res,
                              calls |-> r.calls]
                /\ h_hist' = IF wrote
                             THEN [h_hist EXCEPT !.put =
                                     [k \in DOMAIN h_hist.put \cup {key} |->
                                        IF k = key THEN value ELSE h_hist.put[k]]]
                             ELSE h_hist
    /\ UNCHANGED flash
    /\ LibFrame

\* the namespace opens only on an initialised partition
Lib_getHash ==
    /\ \E key \in LibKeys, defaultValue \in LibDefaults :
         \E opened \in BOOLEAN :
           /\ opened => flash = ESP_OK
           /\ h_call' = [op |-> "getHash", key |-> key, defaultValue |-> defaultValue,
                          opened |-> opened, before |-> store,
                          calls |-> getHashCalls(opened),
                          res |-> getHash(store, key, defaultValue, opened)]
    /\ UNCHANGED <<flash, store, h_hist>>
    /\ LibFrame

LibraryInit ==
    /\ flash \in EspErr
    /\ store = EmptyStore
    /\ store0 = store
    /\ InitShared
    /\ p_pc = "lib"
    /\ c_pc = "lib"

LibraryNext ==
    \/ Lib_begin \/ Lib_CrcRound \/ Lib_calculateCRC32 \/ Lib_makeHash
    \/ Lib_compareHash \/ Lib_compareStored \/ Lib_putHash \/ Lib_getHash

LibrarySpec == LibraryInit /\ [][LibraryNext]_vars

(***************************************************************************)
(* Both programs: the firmware (main.cpp) and the library's example.       *)
(***************************************************************************)
ProgramsInit == Init \/ ExampleInit

ProgramsNext == Next \/ ExampleNext

ProgramsSpec == ProgramsInit /\ [][ProgramsNext]_vars

\* the six decisions of the loader, and every line a case of its switch logs
Decisions ==
    {LOGIN, ZAP_WIZARD, PASSWORD_WIZARD, FACTORY_RESET, VERSION_MISMATCH, HARDWARE_ERROR}

DecisionLines == Decisions \cup {UNKNOWN_STATE}

\* the loader has run its case to the end
LoaderDone ==
    /\ decision # "NONE"
    /\ c_pc \notin {"c_fields", "l_fields"}

(***************************************************************************)
(* C11 - For every result the producer publishes the loader selects        *)
(* exactly one of the six decisions, and the login screen only for status  *)
(* VALID or UPGRADED: a decision, once made, is one of the six and is made *)
(* on a status other than NOT_CHECKED; login goes with VALID or UPGRADED;  *)
(* no case but the selected one has logged, and the selected one has once  *)
(* the loader is through.                                                  *)
(***************************************************************************)
C11_OneDecision ==
    /\ decision \in Decisions \cup {"NONE"}
    /\ decision # "NONE" => g_nvsResult.status # NOT_CHECKED
    /\ decision = LOGIN => g_nvsResult.status \in {VALID, UPGRADED}
    /\ logged \cap DecisionLines \subseteq {decision}
    /\ LoaderDone => logged \cap DecisionLines = {decision}

C11_Witness ==
    /\ LoaderDone
    /\ c_pc = "l_decided"
    /\ decision = LOGIN
    /\ g_nvsResult.status = UPGRADED

\* the producer is in its validation pass: from the call of begin() to the
\* return of validateNVS()
ProducerInPass ==
    p_pc \in {"p_begin", "p_take3", "p_us3", "p_validate", "p_validating",
              "e_begin", "e_validate", "e_validating"}

\* a step of another task that reads or writes the store
OtherTaskStoreAccess == example_firstTimeSetup \/ V_Login1 \/ V_Login2

(***************************************************************************)
(* C12 - The store is accessed by the producer alone during the validation *)
(* pass: while the producer is between begin() and the return of           *)
(* validateNVS() no step of first-time setup or of login validation is     *)
(* taken, and no step of the display handler or of the loader touches the  *)
(* store at any time.                                                      *)
(***************************************************************************)
C12_ExclusiveStore ==
    [][ /\ ProducerInPass => ~OtherTaskStoreAccess
        /\ (Core1_DisplayHandler \/ ExampleLoader)
               => UNCHANGED <<flash, store, nvsTrace>> ]_vars

\* first-time setup has written the store while the producer, back from
\* validateNVS(), is still assigning the result
C12_Witness ==
    /\ p_pc = "e_copy"
    /\ c_pc = "s_hash"
    /\ "putString" \in Range(nvsTrace)

(***************************************************************************)
(* The reference CRC-32: register 0xFFFFFFFF at the start; for each byte,  *)
(* XOR it into the low byte, then 8 rounds of "if the low bit is set shift *)
(* right and XOR 0xEDB88320, else shift right"; complement at the end.     *)
(***************************************************************************)
ReferenceRound(crc) ==
    IF crc[2] % 2 = 1 THEN Xor32(Shr1(crc), CRC_POLY) ELSE Shr1(crc)

\* k rounds
RECURSIVE ReferenceRounds(_, _)
ReferenceRounds(crc, k) ==
    IF k = 0 THEN crc ELSE ReferenceRounds(ReferenceRound(crc), k - 1)

\* the register after the bytes from the i-th on
RECURSIVE ReferenceRegister(_, _, _)
ReferenceRegister(crc, data, i) ==
    IF i > Len(data) \/ ~IsU32(crc) THEN crc
    ELSE ReferenceRegister(ReferenceRounds(Xor32(crc, <<0, data[i]>>), 8), data, i + 1)

ReferenceCrc(data) == Not32(ReferenceRegister(U32_ONES, data, 1))

\* 0xCBF43926
CHECK_VALUE == <<52212, 14630>>

(***************************************************************************)
(* C13 - calculateCRC32 equals the reference CRC-32 on every byte          *)
(* sequence, in 32-bit arithmetic: the branch-free round equals the        *)
(* conditional round on every register value, the sum of "123456789" is    *)
(* 0xCBF43926 and the sum of the empty sequence is 0.                      *)
(***************************************************************************)
C13_ReferenceCrc ==
    /\ h_call.op = "CrcRound" =>
          /\ h_call.res = ReferenceRound(h_call.arg)
          /\ IsU32(h_call.res)
    /\ h_call.op = "calculateCRC32" =>
          /\ h_call.res = ReferenceCrc(h_call.arg)
          /\ IsU32(h_call.res)
          /\ h_call.arg = CHECK_STRING => h_call.res = CHECK_VALUE
          /\ h_call.arg = <<>> => h_call.res = U32_ZERO

C13_Witness ==
    /\ h_call.op = "calculateCRC32"
    /\ h_call.arg = CHECK_STRING
    /\ h_call.res = CHECK_VALUE

\* makeHash has been called again on the input of the remembered call
HashedAgain ==
    /\ h_call.op = "makeHash"
    /\ h_hist.hash # NoHistory.hash
    /\ h_call.arg = h_hist.hash.arg

ComparedWithAnother ==
    /\ h_call.op = "compareHash"
    /\ h_call.arg # h_call.hashed

(***************************************************************************)
(* C15 - compareHash of an input with the hash of a different string.  As  *)
(* claimed: it is false for every two different strings.                   *)
(***************************************************************************)
C15_DistinctNeverMatch ==
    ComparedWithAnother => ~h_call.res

(***************************************************************************)
(* What the code does: compareHash(x, makeHash(y)) is true exactly when    *)
(* the CRC32 of x equals that of y; for x # y of one length of no more     *)
(* bytes than the register has it is false, and two longer or unequally    *)
(* long strings can match.                                                 *)
(***************************************************************************)
MatchIffEqualSum ==
    h_call.op = "compareHash" =>
        /\ h_call.res <=> (KnownCrcs[h_call.arg] = KnownCrcs[h_call.hashed])
        /\ ( /\ ComparedWithAnother
              /\ Len(h_call.arg) = Len(h_call.hashed)
              /\ Len(h_call.arg) <= RegisterBytes ) => ~h_call.res

\* a string other than the one hashed is accepted
CollisionAccepted ==
    /\ ComparedWithAnother
    /\ h_call.arg = COLLIDING_PASSWORD
    /\ h_call.hashed = PASSWORD
    /\ h_call.res

\* the characters 0-9 and A-F, and the number a string of them writes
HexChars == (48..57) \cup (65..70)

HexValue(c) == IF c <= 57 THEN c - 48 ELSE c - 55

HexNumber(q) ==
    ((HexValue(q[1]) * 16 + HexValue(q[2])) * 16 + HexValue(q[3])) * 16 + HexValue(q[4])

(***************************************************************************)
(* C16 - makeHash returns a string of exactly 8 characters, each a         *)
(* hexadecimal digit, that writes the CRC32 of the input, leading zeros    *)
(* kept.                                                                   *)
(***************************************************************************)
C16_EightHexDigits ==
    h_call.op = "makeHash" =>
        /\ Len(h_call.res) = 8
        /\ \A i \in 1..Len(h_call.res) : h_call.res[i] \in HexChars
        /\ <<HexNumber(SubSeq(h_call.res, 1, 4)), HexNumber(SubSeq(h_call.res, 5, 8))>>
              = calculateCRC32(h_call.arg)

\* the hash of the empty string: eight zeros
C16_Witness ==
    /\ h_call.op = "makeHash"
    /\ h_call.arg = <<>>
    /\ h_call.res = <<48, 48, 48, 48, 48, 48, 48, 48>>

\* what getHash returns for a key putHash has stored in this session
RoundTrip ==
    ( /\ h_call.op = "getHash"
      /\ h_call.opened
      /\ h_call.key \in DOMAIN h_hist.put )
    => h_call.res = h_hist.put[h_call.key]

(***************************************************************************)
(* C17 - Round trip: on a usable store putHash(key, s) reports success for *)
(* every string s, the empty one included, and a following getHash of the  *)
(* key returns exactly s, whatever was put and got on other keys before.   *)
(* (Stated as claimed; putHash reports the length of the string stored as  *)
(* its success.)                                                           *)
(***************************************************************************)
C17_RoundTrip ==
    /\ (h_call.op = "putHash" /\ h_call.opened /\ h_call.wrote) => h_call.res
    /\ RoundTrip

\* the empty string is stored, and read back, and putHash has reported failure
EmptyStringStored ==
    /\ h_call.op = "getHash"
    /\ h_call.opened
    /\ h_call.defaultValue = <<100>>
    /\ h_call.key \in DOMAIN h_hist.put
    /\ h_hist.put[h_call.key] = <<>>
    /\ h_call.res = <<>>

(***************************************************************************)
(* C18 - Reads never fail: getHash always returns a value, which is the    *)
(* given default when the key is absent or the namespace cannot be opened  *)
(* and the stored string otherwise, and it leaves the store as it was.     *)
(***************************************************************************)
C18_ReadsNeverFail ==
    h_call.op = "getHash" =>
        /\ h_call.res \in Seq(0..255)
        /\ (~h_call.opened \/ ~Has(h_call.before, h_call.key))
              => h_call.res = h_call.defaultValue
        /\ (h_call.opened /\ Has(h_call.before, h_call.key))
              => h_call.res = h_call.before[h_call.key]
        /\ store = h_call.before

\* the namespace does not open although the key is stored: the default
C18_Witness ==
    /\ h_call.op = "getHash"
    /\ ~h_call.opened
    /\ Has(store, h_call.key)
    /\ h_call.defaultValue = <<100>>
    /\ h_call.res = <<100>>

\* a line of the log that reports the erase; NVSEeprom::begin calls no
\* logger, and its caller logs one line after every successful begin()
EraseReports == {"nvs_flash_erase"}

(***************************************************************************)
(* C19 - Whenever begin() erases and re-initialises the partition, the     *)
(* erase is reported to the logger before the producer goes on to          *)
(* validation: once validateNVS() is called after an erase, the log holds  *)
(* a line reporting it.  (Stated as claimed.)                              *)
(***************************************************************************)
C19_EraseReported ==
    (Erased /\ "validateNVS" \in Range(nvsTrace))
        => logged \cap EraseReports # {}

(***************************************************************************)
(* C20 - The stored VERSION never decreases: no write, by fresh-record     *)
(* initialisation, by migration or by the first-time-setup sequence,       *)
(* replaces a stored VERSION with a smaller one.  (Stated as claimed; the  *)
(* first-time-setup sequence writes CURRENT_VERSION without reading the    *)
(* stored one.)                                                            *)
(***************************************************************************)
C20_VersionNeverDecreases ==
    [][ (Has(store, KEY_VERSION) /\ Has(store', KEY_VERSION))
            => store'[KEY_VERSION] >= store[KEY_VERSION] ]_vars

\* the same of the validation pass alone
ValidationKeepsVersion ==
    [][ (core1_nvsValidationTask /\ Has(store, KEY_VERSION) /\ Has(store', KEY_VERSION))
            => store'[KEY_VERSION] >= store[KEY_VERSION] ]_vars

\* first-time setup has put CURRENT_VERSION where a newer version was stored
VersionDowngraded ==
    /\ c_pc = "s_crc"
    /\ Get(store0, KEY_VERSION, 0) > CURRENT_VERSION
    /\ ~Erased
    /\ Get(store, KEY_VERSION, 0) = CURRENT_VERSION

\* the stored CRC is the checksum of the other three keys
CrcCurrent(st) ==
    Has(st, KEY_CRC) => verifyCRC(st[KEY_CRC], calculateNVSCRC(st))

(***************************************************************************)
(* C21 - In every state of the store, those between the key writes of the  *)
(* first-time-setup sequence included, the stored CRC is the CRC32 of the  *)
(* stored VERSION, ZAPNUMBER and PASSWORD_HASH in that order.  (Stated as  *)
(* claimed, for boots on a record whose CRC is right; the sequence writes  *)
(* the keys one by one and the CRC last.)                                  *)
(***************************************************************************)
C21_CrcAlwaysCurrent ==
    CrcCurrent(store0) => CrcCurrent(store)

\* first-time setup has replaced the password hash and not yet the CRC
CrcStaleInSetup ==
    /\ c_pc = "s_version"
    /\ Has(store0, KEY_CRC)
    /\ CrcCurrent(store0)
    /\ ~Erased
    /\ Get(store, KEY_PASSWORD_HASH, <<>>) = makeHash(EXAMPLE_PASSWORD)
    /\ ~CrcCurrent(store)

\* xTaskCreatePinnedToCore(Core0_NVSValidation, ..., 0) and
\* (Core1_DisplayHandler, ..., 1): the core each task is pinned to
PinnedCore == [core0 |-> 0, core1 |-> 1]

\* the producer is in one of its calls of updateStatus, holding the mutex
ProducerInUpdateStatus == p_pc \in {"p_us1", "p_us2", "p_fail_us", "p_us3", "p_us4"}

\* core0_loaderLogic is in its call of updateStatus, holding the mutex
LoaderInUpdateStatus == c_pc = "c_us"

(***************************************************************************)
(* C22 - Every task runs on the core it is pinned to, the validation runs  *)
(* on core 0 and core0_loaderLogic runs on core 0: the task that holds     *)
(* displayMutex inside a call of updateStatus made by the validation, or   *)
(* by core0_loaderLogic, is one pinned to core 0.  (Stated as claimed;     *)
(* core0_loaderLogic is called by Core1_DisplayHandler.)                   *)
(***************************************************************************)
C22_CoreAssignment ==
    /\ displayMutex \in Tasks \cup {"free"}
    /\ ProducerInUpdateStatus => PinnedCore[displayMutex] = 0
    /\ LoaderInUpdateStatus => PinnedCore[displayMutex] = 0

\* what holds: the validation's calls are made on core 0, the loader's on core 1
CoresAsPinned ==
    /\ ProducerInUpdateStatus => PinnedCore[displayMutex] = 0
    /\ LoaderInUpdateStatus => PinnedCore[displayMutex] = 1

\* how many times a trace of calls erases the partition
Erases(trace) == Cardinality({i \in 1..Len(trace) : trace[i] = "nvs_flash_erase"})

(***************************************************************************)
(* C23 - begin() erases the partition at most once per call, and exactly   *)
(* when the first nvs_flash_init reports ESP_ERR_NVS_NO_FREE_PAGES or      *)
(* ESP_ERR_NVS_NEW_VERSION_FOUND; it returns true exactly when the last    *)
(* nvs_flash_init of the call returned ESP_OK.                             *)
(***************************************************************************)
C23_EraseOnceWhenNeeded ==
    h_call.op = "begin" =>
        /\ Erases(h_call.trace) <= 1
        /\ Erases(h_call.trace) = 1
              <=> h_call.first \in {ESP_ERR_NVS_NO_FREE_PAGES, ESP_ERR_NVS_NEW_VERSION_FOUND}
        /\ h_call.trace[Len(h_call.trace)] = "nvs_flash_init"
        /\ h_call.res <=> (h_call.last = ESP_OK)
        /\ h_call.last = flash

\* an erase after which the second nvs_flash_init fails too
C23_Witness ==
    /\ h_call.op = "begin"
    /\ h_call.first = ESP_ERR_NVS_NEW_VERSION_FOUND
    /\ Erases(h_call.trace) = 1
    /\ h_call.last = ESP_FAIL
    /\ ~h_call.res

(***************************************************************************)
(* main.cpp when every storage call returns, both tasks are scheduled      *)
(* fairly and a task that waits for displayMutex gets it in the end.       *)
(***************************************************************************)
FairSpec ==
    /\ Init
    /\ [][Next]_vars
    /\ SF_vars(Core0_NVSValidation)
    /\ SF_vars(Core1_DisplayHandler)

\* the producer has published and ended, the loader has decided, the display
\* task has ended, and the mutex is free
BothTasksEnded ==
    /\ p_pc = "p_done"
    /\ c_pc = "c_done"
    /\ validationComplete
    /\ decision # "NONE"
    /\ displayMutex = "free"

(***************************************************************************)
(* C24 - Under fair scheduling of the two tasks and of displayMutex, with  *)
(* storage calls that return, every execution of main.cpp comes to the     *)
(* producer having published (after a failed begin() as after a            *)
(* validation), the loader having run, and both tasks ended, for good; the *)
(* switch of the loader is run once only; no task waits for the mutex for  *)
(* ever.                                                                   *)
(***************************************************************************)
C24_BothTasksEnd ==
    /\ <>[]BothTasksEnded
    /\ [][C_Switch => decision = "NONE"]_vars

\* the end of a boot on which begin() failed
C24_Witness ==
    /\ BothTasksEnded
    /\ BeginFailed
    /\ g_nvsResult.status = INITIALIZATION_FAILED
    /\ decision = HARDWARE_ERROR


(***************************************************************************)
(* LVGL calls of the two tasks (main.cpp 148-155, 334-356).  loop() makes  *)
(* none: ScreensaverLib's update() reaches only empty private functions    *)
(* (ScreensaverLib.cpp 168-206).                                           *)
(***************************************************************************)
InTimerHandler == c_pc = "c_timer"
InSpinnerDelete == c_pc = "c_del"
InLvgl(task) ==
    IF task = "core0"
    THEN ProducerInUpdateStatus
    ELSE InTimerHandler \/ LoaderInUpdateStatus \/ InSpinnerDelete

MutexGivenByHolder ==
    /\ (displayMutex = "core0" /\ displayMutex' # "core0")
           => (p_pc' # p_pc /\ c_pc' = c_pc /\ displayMutex' = "free")
    /\ (displayMutex = "core1" /\ displayMutex' # "core1")
           => (c_pc' # c_pc /\ p_pc' = p_pc /\ displayMutex' = "free")

LvglExclusive ==
    /\ ~(InLvgl("core0") /\ InLvgl("core1"))
    /\ ProducerInUpdateStatus => displayMutex = "core0"
    /\ (InTimerHandler \/ LoaderInUpdateStatus) => displayMutex = "core1"
    /\ InSpinnerDelete => (p_pc = "p_done" /\ validationComplete)

\* C25 - no two tasks are inside LVGL at the same time: lv_timer_handler and
\* the lv_label_set_text of updateStatus run only while their task holds
\* displayMutex, the mutex is given back by the task that took it, and the
\* consumer's unlocked lv_obj_del(spinner) runs only after the producer's
\* last updateStatus has returned.
C25_LvglExclusive ==
    /\ []LvglExclusive
    /\ [][MutexGivenByHolder]_vars

C25_Witness ==
    /\ InSpinnerDelete
    /\ spinner
    /\ displayMutex = "free"
    /\ p_pc = "p_done"
    /\ status_label # "Starting..."


\* the letters a-f of a hexadecimal number written in lower case
LowerHexLetters == 97..102

\* the string is the 8 upper-case digits that write the sum
WritesInUpperCase(str, sum) ==
    /\ Len(str) = 8
    /\ \A i \in 1..Len(str) : str[i] \in HexChars
    /\ <<HexNumber(SubSeq(str, 1, 4)), HexNumber(SubSeq(str, 5, 8))>> = sum

(***************************************************************************)
(* C26 - compareHash(data, storedHash) is true exactly when storedHash is  *)
(* the 8 upper-case hexadecimal digits of the CRC32 of data; a storedHash  *)
(* that writes the same sum with a letter in lower case does not match.    *)
(***************************************************************************)
C26_ExactUpperCaseMatch ==
    h_call.op = "compareStored" =>
        /\ h_call.res <=> WritesInUpperCase(h_call.storedHash, KnownCrcs[h_call.arg])
        /\ (\E i \in 1..Len(h_call.storedHash) :
               h_call.storedHash[i] \in LowerHexLetters) => ~h_call.res

\* "pw" against "a0878f96", its own sum A0878F96 in lower case
C26_Witness ==
    /\ h_call.op = "compareStored"
    /\ h_call.arg = PASSWORD
    /\ h_call.storedHash = <<97, 48, 56, 55, 56, 102, 57, 54>>
    /\ ~h_call.res


\* the namespace after the calls of one getHash or putHash: open when its
\* begin returned true and no end() followed
NamespaceOpen ==
    /\ h_call.op \in {"getHash", "putHash"}
    /\ h_call.opened
    /\ h_call.calls[Len(h_call.calls)] # "end"

\* the calls of a getHash or putHash: one begin, in the mode of the call,
\* then, when it returned true, the access and one end()
HandleDiscipline ==
    h_call.op \in {"getHash", "putHash"} =>
        LET calls == h_call.calls
            mode == IF h_call.op = "getHash" THEN "begin(NAMESPACE, true)"
                    ELSE "begin(NAMESPACE, false)"
            access == IF h_call.op = "getHash" THEN "getString" ELSE "putString"
        IN  /\ calls[1] = mode
            /\ h_call.opened => calls = <<mode, access, "end">>
            /\ ~h_call.opened => calls = <<mode>>
            /\ ~NamespaceOpen

\* a putHash whose begin returned false writes nothing and returns false
FailedOpenWritesNothing ==
    (h_call'.op = "putHash" /\ ~h_call'.opened) =>
        (store' = store /\ ~h_call'.res /\ ~h_call'.wrote)

(***************************************************************************)
(* C27 - every getHash and putHash that opens the EARS namespace (getHash  *)
(* read-only, putHash read-write) closes it before it returns; a putHash   *)
(* whose open fails writes nothing and returns false; so the namespace is  *)
(* closed after every sequence of calls.                                   *)
(***************************************************************************)
C27_HandleDiscipline ==
    /\ []HandleDiscipline
    /\ [][FailedOpenWritesNothing]_vars

\* a putHash that opened the namespace, stored a hash and closed it
C27_Witness ==
    /\ h_call.op = "putHash"
    /\ h_call.opened
    /\ h_call.wrote
    /\ h_call.calls = <<"begin(NAMESPACE, false)", "putString", "end">>
    /\ Get(store, KEY_PASSWORD_HASH, <<>>) = makeHash(PASSWORD)


(***************************************************************************)
(* ScreensaverLib called on its own: any sequence of calls of its public   *)
(* functions, with the clock moving between them.  clock.idle is the time  *)
(* that has passed since the last activity; h_call is the call that made   *)
(* the screensaver active.                                                 *)
(***************************************************************************)
MaxTicks == 3

\* the steps of the clock in ms, and millis() at the first call: 0 and
\* 2^32 - 30000
ClockSteps == {1, 29999}
StartInstants == {U32_ZERO, <<65535, 35536>>}

\* uint8_t arguments of setTimeout and setAnimationSpeed
TimeoutArgs == {0, 30, 120, 121, 255}
SpeedArgs == {0, 1, 10, 11, 255}
ModeArgs == {SS_MODE_BLACK, SS_MODE_USER_IMAGE}

ScreensaverFrame ==
    UNCHANGED <<flash, store, store0, nvsTrace, g_nvsResult, written, tmpResult,
                nAssign, validationComplete, displayMutex, status_label,
                spinner, p_pc, c_pc, seen, decision, logged, h_hist>>

Activity == clock' = [clock EXCEPT !.idle = 0]

SS_Tick ==
    /\ clock.ticks < MaxTicks
    /\ \E d \in ClockSteps :
         clock' = [millis |-> Add32(clock.millis, ToU32(d)),
                   idle |-> clock.idle + d,
                   ticks |-> clock.ticks + 1]
    /\ UNCHANGED <<screensaver, h_call>>
    /\ ScreensaverFrame

SS_begin ==
    /\ screensaver' = ScreensaverLib_begin(screensaver, clock.millis)
    /\ Activity
    /\ UNCHANGED h_call
    /\ ScreensaverFrame

SS_reset ==
    /\ screensaver' = ScreensaverLib_reset(screensaver, clock.millis)
    /\ Activity
    /\ UNCHANGED h_call
    /\ ScreensaverFrame

SS_setEnabled ==
    /\ \E enabled \in BOOLEAN :
         screensaver' = ScreensaverLib_setEnabled(screensaver, enabled)
    /\ UNCHANGED <<clock, h_call>>
    /\ ScreensaverFrame

SS_toggleEnabled ==
    /\ screensaver' = ScreensaverLib_toggleEnabled(screensaver)
    /\ UNCHANGED <<clock, h_call>>
    /\ ScreensaverFrame

SS_setTimeout(seconds) ==
    /\ screensaver' = ScreensaverLib_setTimeout(screensaver, seconds)
    /\ UNCHANGED <<clock, h_call>>
    /\ ScreensaverFrame

SS_setMode ==
    /\ \E mode \in ModeArgs :
         screensaver' = ScreensaverLib_setMode(screensaver, mode)
    /\ UNCHANGED <<clock, h_call>>
    /\ ScreensaverFrame

SS_setAnimationSpeed(speed) ==
    /\ screensaver' = ScreensaverLib_setAnimationSpeed(screensaver, speed)
    /\ UNCHANGED <<clock, h_call>>
    /\ ScreensaverFrame

SS_setBounceMode ==
    /\ \E bounce \in BOOLEAN :
         screensaver' = ScreensaverLib_setBounceMode(screensaver, bounce)
    /\ UNCHANGED <<clock, h_call>>
    /\ ScreensaverFrame

SS_activate ==
    /\ screensaver' = ScreensaverLib_activate(screensaver)
    /\ h_call' = IF screensaver.is_active THEN h_call ELSE [op |-> "activate"]
    /\ UNCHANGED clock
    /\ ScreensaverFrame

SS_deactivate ==
    /\ screensaver' = ScreensaverLib_deactivate(screensaver, clock.millis)
    /\ IF screensaver.is_active THEN Activity ELSE UNCHANGED clock
    /\ h_call' = NoCall
    /\ ScreensaverFrame

SS_update ==
    /\ screensaver' = ScreensaverLib_update(screensaver, clock.millis)
    /\ h_call' = IF screensaver'.is_active /\ ~screensaver.is_active
                 THEN [op |-> "update"] ELSE h_call
    /\ UNCHANGED clock
    /\ ScreensaverFrame

\* the object after begin(), at any time of the clock
ScreensaverInit ==
    /\ InitTasks
    /\ flash = ESP_OK
    /\ store = EmptyStore
    /\ store0 = store
    /\ p_pc = "lib"
    /\ c_pc = "lib"
    /\ \E start \in StartInstants :
         /\ clock = [millis |-> start, idle |-> 0, ticks |-> 0]
         /\ screensaver = ScreensaverLib_begin(ScreensaverLib_new, start)

ScreensaverNext ==
    \/ SS_Tick \/ SS_begin \/ SS_reset \/ SS_setEnabled \/ SS_toggleEnabled
    \/ (\E seconds \in TimeoutArgs : SS_setTimeout(seconds))
    \/ SS_setMode
    \/ (\E speed \in SpeedArgs : SS_setAnimationSpeed(speed))
    \/ SS_setBounceMode \/ SS_activate \/ SS_deactivate \/ SS_update

ScreensaverSpec == ScreensaverInit /\ [][ScreensaverNext]_vars

\* the timeout of the settings in ms
TimeoutMs == screensaver.settings.timeout_seconds * 1000

\* update() changes nothing but the active state, and that from inactive to
\* active, exactly when the screensaver is enabled, has a timeout and has
\* been idle for it
UpdateStep ==
    SS_update =>
        /\ screensaver'.settings = screensaver.settings
        /\ screensaver'.last_activity_ms = screensaver.last_activity_ms
        /\ screensaver.is_active => screensaver'.is_active
        /\ (~screensaver.is_active /\ screensaver'.is_active)
              <=> ( /\ ~screensaver.is_active
                    /\ screensaver.settings.enabled
                    /\ screensaver.settings.timeout_seconds # 0
                    /\ clock.idle >= TimeoutMs )

\* a deactivate() of an active screensaver restarts the inactivity time, and
\* an update() at once after it leaves the screensaver inactive
DeactivateStep ==
    (SS_deactivate /\ screensaver.is_active) =>
        /\ ~screensaver'.is_active
        /\ screensaver'.last_activity_ms = clock.millis
        /\ ~ScreensaverLib_update(screensaver', clock'.millis).is_active

\* a second activate() or deactivate() changes nothing
Idempotent ==
    /\ ScreensaverLib_activate(ScreensaverLib_activate(screensaver))
          = ScreensaverLib_activate(screensaver)
    /\ ScreensaverLib_deactivate(
            ScreensaverLib_deactivate(screensaver, clock.millis), clock.millis)
          = ScreensaverLib_deactivate(screensaver, clock.millis)

(***************************************************************************)
(* C28 - update() makes the screensaver active only from inactive, and     *)
(* only when it is enabled, its timeout is not 0 and the time since the    *)
(* last activity is at least timeout_seconds * 1000 ms, also when millis() *)
(* has wrapped since; activate() and deactivate() are idempotent; after a  *)
(* deactivate() the next update() does not activate at once.               *)
(***************************************************************************)
C28_Activation ==
    /\ []Idempotent
    /\ [][UpdateStep /\ DeactivateStep]_vars

\* update() has activated after 30 s over which millis() wrapped
C28_Witness ==
    /\ screensaver.is_active
    /\ h_call = [op |-> "update"]
    /\ screensaver.settings.timeout_seconds = 30
    /\ clock.idle = 30000
    /\ screensaver.last_activity_ms = <<65535, 35536>>
    /\ clock.millis = U32_ZERO


(***************************************************************************)
(* C29 - after construction and any sequence of setter calls with 8-bit    *)
(* arguments, timeout_seconds is within its documented range 0 to 120.     *)
(* (Stated as claimed; setTimeout stores every argument.)                  *)
(***************************************************************************)
C29_TimeoutInRange ==
    screensaver.settings.timeout_seconds \in 0..120

\* what the code does: setTimeout(seconds) stores seconds, whatever it is,
\* and changes nothing else
SetTimeoutStores ==
    \A seconds \in TimeoutArgs :
        SS_setTimeout(seconds) =>
            screensaver' = [screensaver EXCEPT !.settings.timeout_seconds = seconds]

TimeoutAsLastSet == [][SetTimeoutStores]_vars

\* a timeout of 255 s is stored
TimeoutOutOfRange ==
    /\ screensaver.settings.timeout_seconds = 255
    /\ screensaver.settings.enabled

\* setAnimationSpeed(speed) stores a speed of 1 to 10 and changes nothing
\* else; with any other speed it changes nothing
SetAnimationSpeedStep ==
    \A speed \in SpeedArgs :
        SS_setAnimationSpeed(speed) =>
            IF speed \in 1..10
            THEN screensaver' = [screensaver EXCEPT !.settings.animation_speed = speed]
            ELSE screensaver' = screensaver

(***************************************************************************)
(* C30 - after construction and any sequence of setter calls with 8-bit    *)
(* arguments, animation_speed is within 1 to 10: setAnimationSpeed(v)      *)
(* stores v when 1 <= v <= 10 and otherwise leaves every setting unchanged.*)
(***************************************************************************)
C30_AnimationSpeedInRange ==
    /\ [](screensaver.settings.animation_speed \in 1..10)
    /\ [][SetAnimationSpeedStep]_vars

\* the fastest speed has been set, with settings other than the defaults
C30_Witness ==
    /\ screensaver.settings.animation_speed = 10
    /\ screensaver.settings.timeout_seconds = 255
    /\ ~screensaver.settings.bounce_mode

====
